---- MODULE Spec2Model ----
(***************************************************************************)
(* Remote process execution client (process_execution/src/remote.rs):      *)
(* CommandRunner::run, its polling loop, the response classifier           *)
(* extract_execute_response and the scoped CancelRemoteExecutionToken.     *)
(*                                                                         *)
(* Time is in milliseconds.  Strings built with format! are sequences of   *)
(* string pieces; Option<T> is a sequence of length 0 (None) or 1 (Some).  *)
(***************************************************************************)
EXTENDS Integers, Sequences, FiniteSets, TLC

(***************************************************************************)
(* Bounds of the model.                                                    *)
(***************************************************************************)
\* Execute RPCs one run may issue (the loop itself has no such limit).
MaxExecutes == 3
\* The same for a run whose request has the long timeout, which polls often.
MaxExecutesLong == 1

(***************************************************************************)
(* Program constants.                                                      *)
(***************************************************************************)
BACKOFF_INCR_WAIT_MILLIS == 500
BACKOFF_MAX_WAIT_MILLIS == 5000
SIGTERM == 15
CACHE_KEY_GEN_VERSION_ENV_VAR_NAME == "PANTS_CACHE_KEY_GEN_VERSION"

None == <<>>
Some(x) == <<x>>
IsSome(o) == Len(o) = 1
Unwrap(o) == o[1]

min(a, b) == IF a <= b THEN a ELSE b

(***************************************************************************)
(* Inputs: the environment's choices.                                      *)
(***************************************************************************)
\* Request timeouts: zero, one that two polls exhaust exactly, and one long
\* enough for the backoff to reach its cap.
LongTimeout == 30000
Timeouts == {0, 1500, LongTimeout}
\* How long the local store and an Execute RPC may take.
Latencies == {0, 2000}
\* How late after its deadline the backoff timer may fire.
Jitters == {0, 500}
\* The operation names the server hands out: a new one for every Execute.
OperationNames == <<"op-1", "op-2", "op-3", "op-4", "op-5">>
\* UploadSummary of one ensure_remote_has_recursive call (files uploaded).
Summaries == {1}

(***************************************************************************)
(* hashing::Digest and the protobuf messages of the wire protocol.         *)
(***************************************************************************)
Digest(fingerprint, size) == [fingerprint |-> fingerprint, size |-> size]
EMPTY_DIGEST == Digest("e3b0", 0)

\* Fingerprint::from_hex_string: the hex strings that decode.
HexFingerprints == {"f1", "f2", "e3b0"}
\* str::parse::<usize>: the decimal strings that parse, with their values.
ParseUsize(s) == CASE s = "0" -> Some(0)
                   [] s = "3" -> Some(3)
                   [] s = "7" -> Some(7)
                   [] OTHER -> None

PreconditionFailureTypeUrl == "type.googleapis.com/google.rpc.PreconditionFailure"

Violation(type, subject) == [type |-> type, subject |-> subject]
\* A google.protobuf.Any in Status.details holding a PreconditionFailure.
Detail(type_url, parses, violations) ==
  [type_url |-> type_url, parses |-> parses, violations |-> violations]
Status(code, message, details) ==
  [code |-> code, message |-> message, details |-> details]
DefaultStatus == Status("OK", "", <<>>)

\* A violation subject is a string; its characters are grouped into pieces with
\* "/" kept as a piece of its own, so that split('/') is computed.
MissingSubject(fp, size) == <<"blobs", "/", fp, "/", size>>

ExecutedActionMetadata(queue, input_fetch, execution, output_upload) ==
  [queue |-> queue, input_fetch |-> input_fetch, execution |-> execution,
   output_upload |-> output_upload]
\* A pair of timestamps; well_formed is whether both convert.
Span(start, end) == [start |-> start, end |-> end, well_formed |-> TRUE]
DefaultMetadata == ExecutedActionMetadata(Span(0, 0), Span(0, 0), Span(0, 0), Span(0, 0))

\* bazel_protos::remote_execution::Digest, as it is on the wire
ProtoDigest(hash, size_bytes) == [hash |-> hash, size_bytes |-> size_bytes]

\* bazel_protos::remote_execution::OutputFile and OutputDirectory; a path is
\* given as its pieces, names and separators.
OutputFile(path, digest, is_executable) ==
  [path |-> path, digest |-> digest, is_executable |-> is_executable]
OutputDirectory(path, tree_digest) == [path |-> path, tree_digest |-> tree_digest]

\* An ActionResult with inline stdout and nothing else to materialize; the
\* digest forms are Options (has_stdout_digest is IsSome).
ActionResult(exit_code, stdout_raw, has_execution_metadata, metadata) ==
  [exit_code |-> exit_code, stdout_raw |-> stdout_raw, stdout_digest |-> None,
   stderr_raw |-> <<>>, stderr_digest |-> None,
   output_files |-> <<>>, output_directories |-> <<>>,
   has_execution_metadata |-> has_execution_metadata, metadata |-> metadata]
ExecuteResponse(status, cached_result, res) ==
  [status |-> status, cached_result |-> cached_result, result |-> res]
DefaultResponse == ExecuteResponse(DefaultStatus, FALSE, ActionResult(0, <<>>, FALSE, DefaultMetadata))

\* google.longrunning.Operation.  response_parses is whether the bytes of the
\* response Any decode as an ExecuteResponse.
Operation(name, done, has_error, error, has_response, response_parses, response) ==
  [name |-> name, done |-> done, has_error |-> has_error, error |-> error,
   has_response |-> has_response, response_parses |-> response_parses,
   response |-> response]
DefaultOperation == Operation("", FALSE, FALSE, DefaultStatus, FALSE, FALSE, DefaultResponse)

\* enum OperationOrStatus
OperationOrStatus_Operation(op) == [tag |-> "Operation", operation |-> op, status |-> DefaultStatus]
OperationOrStatus_Status(st) == [tag |-> "Status", operation |-> DefaultOperation, status |-> st]

(***************************************************************************)
(* ExecutionStats and ExecutionHistory.                                    *)
(***************************************************************************)
ExecutionStats_default ==
  [uploaded |-> 0, remote_queue |-> None, remote_input_fetch |-> None,
   remote_execution |-> None, remote_output_store |-> None, was_cache_hit |-> FALSE]
ExecutionHistory_default == [attempts |-> <<>>, current_attempt |-> ExecutionStats_default]

\* impl AddAssign<UploadSummary> for ExecutionStats
AddSummary(stats, summary) == [stats EXCEPT !.uploaded = @ + summary]

(***************************************************************************)
(* ExecutionError and the outcome of extract_execute_response.             *)
(* kind is "Done" for Ok(result), "Fatal", "MissingDigests" or             *)
(* "NotFinished" for the three ExecutionError variants, and "Panic" when   *)
(* the unreachable!() arm is entered.                                      *)
(***************************************************************************)
FallibleExecuteProcessResult(stdout, stderr, exit_code, output_directory, execution_attempts) ==
  [stdout |-> stdout, stderr |-> stderr, exit_code |-> exit_code,
   output_directory |-> output_directory, execution_attempts |-> execution_attempts]
DefaultResult == FallibleExecuteProcessResult(<<>>, <<>>, 0, EMPTY_DIGEST, <<>>)

Outcome(kind, name, message, digests, res) ==
  [kind |-> kind, name |-> name, message |-> message, missing_digests |-> digests,
   result |-> res]
Fatal(message) == Outcome("Fatal", "", message, <<>>, DefaultResult)
MissingDigests(digests) == Outcome("MissingDigests", "", <<>>, digests, DefaultResult)
NotFinished(name) == Outcome("NotFinished", name, <<>>, <<>>, DefaultResult)
Done(res) == Outcome("Done", "", <<>>, <<>>, res)
Panic == Outcome("Panic", "", <<"internal error: entered unreachable code">>, <<>>, DefaultResult)

\* bazel_protos::code::Code::from_i32 followed by {:?}: the codes with a name
\* print it, any other prints as the number it is.
KnownCodes == {"OK", "CANCELLED", "INTERNAL", "FAILED_PRECONDITION", "UNAVAILABLE"}
format_error(error) ==
  <<(IF error.code \in KnownCodes THEN error.code ELSE "99"), ": ", error.message>>

\* str::split('/') on a subject given as pieces.
RECURSIVE SplitFrom(_, _, _)
SplitFrom(s, i, cur) ==
  IF i > Len(s) THEN <<cur>>
  ELSE IF s[i] = "/" THEN <<cur>> \o SplitFrom(s, i + 1, "")
  ELSE SplitFrom(s, i + 1, s[i])
split(s) == SplitFrom(s, 1, "")
\* Iterator::rev on a sequence.
Reverse(s) == [i \in 1..Len(s) |-> s[Len(s) + 1 - i]]

\* One violation of a PreconditionFailure: the digest it names, or the Fatal
\* error the loop body returns for it.
ViolationDigest(violation) ==
  LET parts == split(violation.subject) IN
  IF violation.type # "MISSING"
    THEN [ok |-> FALSE, digest |-> EMPTY_DIGEST,
          message |-> <<"Didn't know how to process PreconditionFailure violation: ", violation.type>>]
  ELSE IF Len(parts) # 3 \/ parts[1] # "blobs"
    THEN [ok |-> FALSE, digest |-> EMPTY_DIGEST,
          message |-> <<"Received FailedPrecondition MISSING but didn't recognize subject ">> \o violation.subject]
  ELSE IF parts[2] \notin HexFingerprints
    THEN [ok |-> FALSE, digest |-> EMPTY_DIGEST,
          message |-> <<"Bad digest in missing blob: ", parts[2]>>]
  ELSE IF ~IsSome(ParseUsize(parts[3]))
    THEN [ok |-> FALSE, digest |-> EMPTY_DIGEST,
          message |-> <<"Missing blob had bad size: ", parts[3]>>]
  ELSE [ok |-> TRUE, digest |-> Digest(parts[2], Unwrap(ParseUsize(parts[3]))), message |-> <<>>]

\* A loop that passes over the violations it rejects.
RECURSIVE MissingDigestsFrom_skipping(_, _, _)
MissingDigestsFrom_skipping(violations, i, acc) ==
  IF i > Len(violations) THEN
    (IF acc = <<>>
       THEN Fatal(<<"Error from remote execution: FailedPrecondition, but no details">>)
       ELSE MissingDigests(acc))
  ELSE LET v == ViolationDigest(violations[i]) IN
       MissingDigestsFrom_skipping(violations, i + 1,
                                   IF v.ok THEN Append(acc, v.digest) ELSE acc)

\* The for loop over the violations: stops at the first one it rejects.
RECURSIVE MissingDigestsFrom(_, _, _)
MissingDigestsFrom(violations, i, acc) ==
  IF i > Len(violations) THEN
    (IF acc = <<>>
       THEN Fatal(<<"Error from remote execution: FailedPrecondition, but no details">>)
       ELSE MissingDigests(acc))
  ELSE LET v == ViolationDigest(violations[i]) IN
       IF v.ok THEN MissingDigestsFrom(violations, i + 1, Append(acc, v.digest))
       ELSE Fatal(v.message)

\* A match whose last arm takes every other code for an operation still running.
ClassifyStatus_other_not_finished(status) ==
  IF status.code = "OK" THEN Panic
  ELSE IF status.code = "FAILED_PRECONDITION" THEN
    (IF Len(status.details) # 1
       THEN Fatal(<<"Received multiple details in FailedPrecondition ExecuteResponse's status field">>)
     ELSE IF status.details[1].type_url # PreconditionFailureTypeUrl
       THEN Fatal(<<"Received FailedPrecondition, but didn't know how to resolve it: ",
                    status.message, ",protobuf type ", status.details[1].type_url>>)
     ELSE IF ~status.details[1].parses
       THEN Fatal(<<"Error deserializing FailedPrecondition proto">>)
     ELSE MissingDigestsFrom(status.details[1].violations, 1, <<>>))
  ELSE NotFinished(OperationNames[1])

\* The match on the status code that ends extract_execute_response.
ClassifyStatus(status) ==
  IF status.code = "OK" THEN Panic
  ELSE IF status.code = "FAILED_PRECONDITION" THEN
    (IF Len(status.details) # 1
       THEN Fatal(<<"Received multiple details in FailedPrecondition ExecuteResponse's status field">>)
     ELSE IF status.details[1].type_url # PreconditionFailureTypeUrl
       THEN Fatal(<<"Received FailedPrecondition, but didn't know how to resolve it: ",
                    status.message, ",protobuf type ", status.details[1].type_url>>)
     ELSE IF ~status.details[1].parses
       THEN Fatal(<<"Error deserializing FailedPrecondition proto">>)
     ELSE MissingDigestsFrom(status.details[1].violations, 1, <<>>))
  ELSE Fatal(<<"Error from remote execution: ", status.code, ": ", status.message>>)

\* A conversion that takes any pair of timestamps for a span.
TimeSpan_from_start_and_end_unchecked(span) == Some(span.end - span.start)

\* concrete_time::TimeSpan::from_start_and_end: the duration, or an error for
\* timestamps that do not convert or an end before the start.
TimeSpan_from_start_and_end(span) ==
  IF span.well_formed /\ span.end >= span.start THEN Some(span.end - span.start) ELSE None

\* A maybe_add_workunit that does not look at result_cached.
maybe_add_workunit_always(result_cached, name) == <<name>>

\* The workunit maybe_add_workunit adds for one span, if any.
maybe_add_workunit(result_cached, name) ==
  IF ~result_cached THEN <<name>> ELSE <<>>

\* The four match blocks on the execution metadata: the current attempt with
\* the durations that could be computed, and the cache flag.
RecordMetadata(current_attempt, response) ==
  LET m == response.result.metadata
      q == TimeSpan_from_start_and_end(m.queue)
      f == TimeSpan_from_start_and_end(m.input_fetch)
      e == TimeSpan_from_start_and_end(m.execution)
      u == TimeSpan_from_start_and_end(m.output_upload)
  IN [current_attempt EXCEPT
        !.remote_queue = IF IsSome(q) THEN q ELSE @,
        !.remote_input_fetch = IF IsSome(f) THEN f ELSE @,
        !.remote_execution = IF IsSome(e) THEN e ELSE @,
        !.remote_output_store = IF IsSome(u) THEN u ELSE @,
        !.was_cache_hit = response.cached_result]

MetadataWorkunits(response) ==
  LET m == response.result.metadata
      c == response.cached_result
      W(span, name) == IF IsSome(TimeSpan_from_start_and_end(span))
                         THEN maybe_add_workunit(c, name) ELSE <<>>
  IN W(m.queue, "remote execution action scheduling")
     \o W(m.input_fetch, "remote execution worker input fetching")
     \o W(m.execution, "remote execution worker command executing")
     \o W(m.output_upload, "remote execution worker output uploading")

(***************************************************************************)
(* The Store, as the materializer uses it.  It is content-addressed: blobs  *)
(* is the byte strings it holds, each found under the digest of its bytes,  *)
(* and ok is whether its calls succeed while the response is materialized.  *)
(***************************************************************************)
Store(blobs, ok) == [blobs |-> blobs, ok |-> ok]

\* hashing::Digest::of_bytes: SHA-256 and length.  "foo" and "bar" have the
\* fingerprints the MISSING subjects name.
DigestOfBytes(bytes) ==
  CASE bytes = <<>> -> EMPTY_DIGEST
    [] bytes = <<"foo">> -> Digest("f1", 3)
    [] bytes = <<"bar">> -> Digest("f2", 3)
    [] OTHER -> Digest(ToString(bytes), Len(bytes))

\* Store::store_file_bytes: the bytes are held afterwards.
store_file_bytes(store, bytes) ==
  [ok |-> store.ok, digest |-> DigestOfBytes(bytes),
   stored |-> IF store.ok THEN {bytes} ELSE {}]

\* Store::load_file_bytes_with: Ok(Some(bytes)) when the store holds bytes with
\* the digest, Ok(None) when it holds none.
load_file_bytes_with(store, digest) ==
  [ok |-> store.ok,
   value |-> IF \E bytes \in store.blobs : DigestOfBytes(bytes) = digest
               THEN Some(CHOOSE bytes \in store.blobs : DigestOfBytes(bytes) = digest)
               ELSE None]

\* bazel_protos::remote_execution::Directory, FileNode and DirectoryNode.
FileNode(name, digest, is_executable) ==
  [name |-> name, digest |-> digest, is_executable |-> is_executable]
DirectoryNode(name, digest) == [name |-> name, digest |-> digest]
Directory(files, directories) == [files |-> files, directories |-> directories]
EmptyDirectory == Directory(<<>>, <<>>)

\* Message::write_to_bytes for a Directory: the empty message has no bytes.
DirectoryBytes(directory) ==
  IF directory = EmptyDirectory THEN <<>>
  ELSE <<"Directory",
         [i \in DOMAIN directory.files |->
            <<directory.files[i].name, directory.files[i].digest.fingerprint,
              directory.files[i].digest.size, directory.files[i].is_executable>>],
         [i \in DOMAIN directory.directories |->
            <<directory.directories[i].name, directory.directories[i].digest.fingerprint,
              directory.directories[i].digest.size>>]>>
\* Whether bytes parse as a Directory, and the Directory they parse as.
IsDirectoryBytes(bytes) == bytes = <<>> \/ (Len(bytes) = 3 /\ bytes[1] = "Directory")
ParseDirectory(bytes) ==
  IF bytes = <<>> THEN EmptyDirectory
  ELSE Directory([i \in DOMAIN bytes[2] |->
                    FileNode(bytes[2][i][1], Digest(bytes[2][i][2], bytes[2][i][3]),
                             bytes[2][i][4])],
                 [i \in DOMAIN bytes[3] |->
                    DirectoryNode(bytes[3][i][1], Digest(bytes[3][i][2], bytes[3][i][3]))])

\* The trees a server reports, as TestDirectory::containing_roland and
\* containing_robin, and the order of str on the names of the model.
ContainingRoland == Directory(<<FileNode("roland", Digest("f1", 3), FALSE)>>, <<>>)
ContainingRobin == Directory(<<FileNode("robin", Digest("f2", 3), FALSE)>>, <<>>)
ServerTrees == {ContainingRoland, ContainingRobin}
NodeNames == <<"cats", "dogs", "pets", "robin", "roland", "treats">>
NameRank(name) == CHOOSE i \in DOMAIN NodeNames : NodeNames[i] = name

\* Store::record_directory: the serialized Directory is held afterwards.
record_directory(store, directory) ==
  [ok |-> store.ok, digest |-> DigestOfBytes(DirectoryBytes(directory)),
   stored |-> IF store.ok THEN {DirectoryBytes(directory)} ELSE {}]

\* Store::load_directory over the blobs a store holds; the empty Directory is
\* always there.
load_directory(blobs, digest) ==
  IF digest = EMPTY_DIGEST THEN Some(EmptyDirectory)
  ELSE IF \E bytes \in blobs : IsDirectoryBytes(bytes) /\ DigestOfBytes(bytes) = digest
    THEN Some(ParseDirectory(CHOOSE bytes \in blobs :
                               IsDirectoryBytes(bytes) /\ DigestOfBytes(bytes) = digest))
  ELSE None

\* The conversion of a wire Digest into a hashing::Digest: it fails when the
\* hash is not a hex fingerprint.  The fingerprints of the server's trees are.
DigestFromProto(proto_digest) ==
  IF proto_digest.hash \in HexFingerprints
       \cup {DigestOfBytes(DirectoryBytes(tree)).fingerprint : tree \in ServerTrees}
    THEN [ok |-> TRUE, digest |-> Digest(proto_digest.hash, proto_digest.size_bytes),
          message |-> <<>>]
    ELSE [ok |-> FALSE, digest |-> EMPTY_DIGEST,
          message |-> <<"Bad fingerprint in Digest ", proto_digest.hash>>]

\* What one of the three extractions comes to: a value or an error message, and
\* the byte strings it has put into the store.
Extracted(value, stored) == [ok |-> TRUE, value |-> value, message |-> <<>>, stored |-> stored]
NotExtracted(message) == [ok |-> FALSE, value |-> <<>>, message |-> message, stored |-> {}]

\* An extract_stdout that returns inline bytes without storing them.
extract_stdout_unstored(store, execute_response) ==
  IF IsSome(execute_response.result.stdout_digest)
    THEN LET loaded == load_file_bytes_with(store,
                         DigestFromProto(Unwrap(execute_response.result.stdout_digest)).digest)
         IN IF loaded.ok /\ IsSome(loaded.value) THEN Extracted(Unwrap(loaded.value), {})
            ELSE NotExtracted(<<"Couldn't find stdout digest">>)
    ELSE Extracted(execute_response.result.stdout_raw, {})

\* extract_stdout
extract_stdout(store, execute_response) ==
  IF IsSome(execute_response.result.stdout_digest) THEN
    LET stdout_digest_result == DigestFromProto(Unwrap(execute_response.result.stdout_digest))
        stdout_digest == stdout_digest_result.digest
        loaded == load_file_bytes_with(store, stdout_digest)
    IN IF ~stdout_digest_result.ok
         THEN NotExtracted(<<"Error extracting stdout: ">> \o stdout_digest_result.message)
       ELSE IF ~loaded.ok
         THEN NotExtracted(<<"Error fetching stdout digest (", stdout_digest.fingerprint, ")">>)
       ELSE IF ~IsSome(loaded.value)
         THEN NotExtracted(<<"Couldn't find stdout digest (", stdout_digest.fingerprint,
                             "), when fetching.">>)
       ELSE Extracted(Unwrap(loaded.value), {})
  ELSE
    LET stdout_raw == execute_response.result.stdout_raw
        stdout_copy == stdout_raw
        stored == store_file_bytes(store, stdout_raw)
    IN IF ~stored.ok THEN NotExtracted(<<"Error storing raw stdout">>)
       ELSE Extracted(stdout_copy, stored.stored)

\* extract_stderr
extract_stderr(store, execute_response) ==
  IF IsSome(execute_response.result.stderr_digest) THEN
    LET stderr_digest_result == DigestFromProto(Unwrap(execute_response.result.stderr_digest))
        stderr_digest == stderr_digest_result.digest
        loaded == load_file_bytes_with(store, stderr_digest)
    IN IF ~stderr_digest_result.ok
         THEN NotExtracted(<<"Error extracting stderr: ">> \o stderr_digest_result.message)
       ELSE IF ~loaded.ok
         THEN NotExtracted(<<"Error fetching stderr digest (", stderr_digest.fingerprint, ")">>)
       ELSE IF ~IsSome(loaded.value)
         THEN NotExtracted(<<"Couldn't find stderr digest (", stderr_digest.fingerprint,
                             "), when fetching.">>)
       ELSE Extracted(Unwrap(loaded.value), {})
  ELSE
    LET stderr_raw == execute_response.result.stderr_raw
        stderr_copy == stderr_raw
        stored == store_file_bytes(store, stderr_raw)
    IN IF ~stored.ok THEN NotExtracted(<<"Error storing raw stderr">>)
       ELSE Extracted(stderr_copy, stored.stored)

(***************************************************************************)
(* Snapshot::merge_directories and Snapshot::digest_from_path_stats, over   *)
(* the blobs of a store.  A merge loads the Directories it is given, takes  *)
(* the union of their files and of their directories by name, merges the    *)
(* directories of one name, and records what it makes; two files of one     *)
(* name and different content do not merge.                                 *)
(***************************************************************************)
Merged(digest, blobs) == [ok |-> TRUE, digest |-> digest, blobs |-> blobs]
NotMerged == [ok |-> FALSE, digest |-> EMPTY_DIGEST, blobs |-> {}]

RECURSIVE MergeFiles(_, _)
MergeFiles(files, others) ==
  IF files = <<>> THEN [ok |-> TRUE, files |-> others]
  ELSE IF others = <<>> THEN [ok |-> TRUE, files |-> files]
  ELSE IF files[1].name = others[1].name THEN
    (IF files[1] # others[1] THEN [ok |-> FALSE, files |-> <<>>]
     ELSE LET rest == MergeFiles(Tail(files), Tail(others)) IN
          [ok |-> rest.ok, files |-> <<files[1]>> \o rest.files])
  ELSE IF NameRank(files[1].name) < NameRank(others[1].name) THEN
    LET rest == MergeFiles(Tail(files), others) IN
    [ok |-> rest.ok, files |-> <<files[1]>> \o rest.files]
  ELSE
    LET rest == MergeFiles(files, Tail(others)) IN
    [ok |-> rest.ok, files |-> <<others[1]>> \o rest.files]

\* A Directory made by a merge, recorded in blobs.
MergedDirectory(directory, blobs) ==
  Merged(DigestOfBytes(DirectoryBytes(directory)), blobs \cup {DirectoryBytes(directory)})

\* The merged files and the merged directories of two Directories put together.
MergeParts(files, nodes) ==
  IF ~files.ok \/ ~nodes.ok THEN NotMerged
  ELSE MergedDirectory(Directory(files.files, nodes.directories), nodes.blobs)

\* One more node in front of the merged nodes that follow it.
PrependNode(node, rest) ==
  [ok |-> rest.ok, directories |-> <<node>> \o rest.directories, blobs |-> rest.blobs]

RECURSIVE MergeTwo(_, _, _)
RECURSIVE MergeNodes(_, _, _)
\* Two directories of one name: child is the merge of their trees.
MergeChild(blobs, nodes, others, child) ==
  IF ~child.ok THEN [ok |-> FALSE, directories |-> <<>>, blobs |-> blobs]
  ELSE PrependNode(DirectoryNode(nodes[1].name, child.digest),
                   MergeNodes(child.blobs, Tail(nodes), Tail(others)))

MergeNodes(blobs, nodes, others) ==
  IF nodes = <<>> THEN [ok |-> TRUE, directories |-> others, blobs |-> blobs]
  ELSE IF others = <<>> THEN [ok |-> TRUE, directories |-> nodes, blobs |-> blobs]
  ELSE IF nodes[1].name = others[1].name
    THEN MergeChild(blobs, nodes, others, MergeTwo(blobs, nodes[1].digest, others[1].digest))
  ELSE IF NameRank(nodes[1].name) < NameRank(others[1].name)
    THEN PrependNode(nodes[1], MergeNodes(blobs, Tail(nodes), others))
  ELSE PrependNode(others[1], MergeNodes(blobs, nodes, Tail(others)))

MergeLoaded(blobs, one, two) ==
  MergeParts(MergeFiles(one.files, two.files),
             MergeNodes(blobs, one.directories, two.directories))

MergeTwo(blobs, digest, other) ==
  IF ~IsSome(load_directory(blobs, digest)) \/ ~IsSome(load_directory(blobs, other))
    THEN NotMerged
  ELSE MergeLoaded(blobs, Unwrap(load_directory(blobs, digest)),
                   Unwrap(load_directory(blobs, other)))

RECURSIVE MergeFrom(_, _, _, _)
\* The fold over the digests goes on from next, the merge made so far.
MergeNext(digests, i, next) ==
  IF ~next.ok THEN NotMerged ELSE MergeFrom(next.blobs, digests, i + 1, next.digest)

MergeFrom(blobs, digests, i, digest) ==
  IF i > Len(digests) THEN Merged(digest, blobs)
  ELSE MergeNext(digests, i, MergeTwo(blobs, digest, digests[i]))

\* The serialized Directories of the tree under a digest that blobs holds.
RECURSIVE TreeBlobs(_, _)
TreeBlobs(blobs, digest) ==
  IF digest = EMPTY_DIGEST \/ ~IsSome(load_directory(blobs, digest)) THEN {}
  ELSE LET directory == Unwrap(load_directory(blobs, digest)) IN
       {DirectoryBytes(directory)}
         \cup UNION {TreeBlobs(blobs, directory.directories[i].digest) :
                       i \in DOMAIN directory.directories}

\* What a Snapshot operation returns for the tree it made: its digest and the
\* Directories it recorded.
TreeMade(made, message) ==
  IF ~made.ok THEN NotExtracted(message)
  ELSE Extracted(made.digest, TreeBlobs(made.blobs, made.digest))

\* Snapshot::merge_directories: one digest is returned as it is.
merge_directories(store, digests) ==
  IF ~store.ok THEN NotExtracted(<<"store error">>)
  ELSE IF digests = <<>> THEN Extracted(EMPTY_DIGEST, {})
  ELSE IF Len(digests) = 1 THEN Extracted(digests[1], {})
  ELSE TreeMade(MergeFrom(store.blobs, digests, 2, digests[1]), <<"merge error">>)

\* The Directory holding one file at the end of its path, recorded level by
\* level in blobs: components are the names of the path from the last.
RECURSIVE ChainFrom(_, _, _, _)
ChainFrom(blobs, components, i, directory) ==
  IF i > Len(components) THEN MergedDirectory(directory, blobs)
  ELSE ChainFrom(blobs \cup {DirectoryBytes(directory)}, components, i + 1,
                 Directory(<<>>, <<DirectoryNode(components[i],
                                                 DigestOfBytes(DirectoryBytes(directory)))>>))

\* The chain of Directories down to one file.
FileChain(blobs, components, file_digest, is_executable) ==
  ChainFrom(blobs, components, 2,
            Directory(<<FileNode(components[1], file_digest, is_executable)>>, <<>>))

\* The tree made so far with the chain of one more file merged into it.
MergeChain(digest, chain) == MergeTwo(chain.blobs, digest, chain.digest)

\* Snapshot::digest_from_path_stats: the Directory that has every file of
\* path_stats at its path, with the digest store_by_digest gives for it.
RECURSIVE PathStatsFrom(_, _, _, _, _)
PathStatsNext(path_map, path_stats, i, next) ==
  IF ~next.ok THEN NotMerged
  ELSE PathStatsFrom(next.blobs, path_map, path_stats, i + 1, next.digest)

PathStatsFrom(blobs, path_map, path_stats, i, digest) ==
  IF i > Len(path_stats) THEN Merged(digest, blobs)
  ELSE PathStatsNext(path_map, path_stats, i,
         MergeChain(digest, FileChain(blobs, Reverse(split(path_stats[i].path)),
                                      path_map[path_stats[i].path],
                                      path_stats[i].is_executable)))

digest_from_path_stats(store, path_map, path_stats) ==
  IF ~store.ok THEN NotExtracted(<<"store error">>)
  ELSE TreeMade(PathStatsFrom(store.blobs, path_map, path_stats, 1, EMPTY_DIGEST),
                <<"path stats error">>)

(***************************************************************************)
(* extract_output_files                                                    *)
(***************************************************************************)
\* The components of a path from the first to the last.
split_forward(path) == split(path)

\* str::rsplit('/'): the components of a path from the last to the first.
rsplit(path) == Reverse(split(path))

\* The chain of and_then closures the inner for loop builds: each wraps the
\* digest it is given in a Directory with one DirectoryNode and records it.
RECURSIVE WrapFrom(_, _, _, _, _)
WrapFrom(store, components, i, digest, stored) ==
  IF i > Len(components) THEN Extracted(digest, stored)
  ELSE LET recorded == record_directory(store,
                         Directory(<<>>, <<DirectoryNode(components[i], digest)>>))
       IN IF ~recorded.ok THEN NotExtracted(<<"Error saving remote output directory: ">>)
          ELSE WrapFrom(store, components, i + 1, recorded.digest,
                        stored \cup recorded.stored)

\* One turn of the for loop over the output directories: the future pushed to
\* directory_digests.
OutputDirectoryDigest(store, dir) ==
  LET digest_result == DigestFromProto(dir.tree_digest) IN
  IF ~digest_result.ok
    THEN NotExtracted(<<"Error saving remote output directory: ">> \o digest_result.message)
  ELSE IF dir.path = <<>> THEN Extracted(digest_result.digest, {})
  ELSE WrapFrom(store, rsplit(dir.path), 1, digest_result.digest, {})

\* join_all(directory_digests): the digests in order, or the first error.
RECURSIVE JoinAllFrom(_, _, _, _, _)
JoinNext(store, output_directories, i, digests, stored, one) ==
  IF ~one.ok THEN one
  ELSE JoinAllFrom(store, output_directories, i + 1, Append(digests, one.value),
                   stored \cup one.stored)

JoinAllFrom(store, output_directories, i, digests, stored) ==
  IF i > Len(output_directories) THEN Extracted(digests, stored)
  ELSE JoinNext(store, output_directories, i, digests, stored,
                OutputDirectoryDigest(store, output_directories[i]))

\* The map over the output files: path_map and the path stats, or the error of
\* the first digest that does not convert.
RECURSIVE PathStatsOf(_, _, _, _)
PathStatsOf(output_files, i, path_map, path_stats) ==
  IF i > Len(output_files)
    THEN [ok |-> TRUE, message |-> <<>>, path_map |-> path_map, path_stats |-> path_stats]
  ELSE LET output_file == output_files[i]
           digest_result == DigestFromProto(output_file.digest)
       IN IF ~digest_result.ok
            THEN [ok |-> FALSE, message |-> digest_result.message, path_map |-> path_map,
                  path_stats |-> path_stats]
          ELSE PathStatsOf(output_files, i + 1,
                 [path \in DOMAIN path_map \cup {output_file.path} |->
                    IF path = output_file.path THEN digest_result.digest ELSE path_map[path]],
                 Append(path_stats, [path |-> output_file.path,
                                     is_executable |-> output_file.is_executable]))

\* The closure given to and_then after the join: the merge of the directory
\* digests and the files digest, in this order.
MergeJoined(stored, merged) ==
  IF ~merged.ok
    THEN NotExtracted(<<"Error when merging output files and directories: ">>
                        \o merged.message)
  ELSE Extracted(merged.value, stored \cup merged.stored)

\* files_digest.join(join_all(directory_digests)): the error of the files
\* digest comes before the error of a directory digest.
JoinDigests(store, files_digest, directory_digests) ==
  IF ~files_digest.ok
    THEN NotExtracted(<<"Error when storing the output file directory info in the remote CAS: ">>
                        \o files_digest.message)
  ELSE IF ~directory_digests.ok THEN directory_digests
  ELSE MergeJoined(files_digest.stored \cup directory_digests.stored,
         merge_directories(
           Store(store.blobs \cup files_digest.stored \cup directory_digests.stored,
                 store.ok),
           Append(directory_digests.value, files_digest.value)))

\* try_future!(path_stats_result) returns before a future is polled.
FromPathStats(store, execute_response, path_stats_result) ==
  IF ~path_stats_result.ok THEN NotExtracted(path_stats_result.message)
  ELSE JoinDigests(store,
         digest_from_path_stats(store, path_stats_result.path_map,
                                path_stats_result.path_stats),
         JoinAllFrom(store, execute_response.result.output_directories, 1, <<>>, {}))

extract_output_files(store, execute_response) ==
  FromPathStats(store, execute_response,
                PathStatsOf(execute_response.result.output_files, 1, <<>>, <<>>))

\* The join of the three extractions, whose first error in the order they are
\* polled is the error of the join, mapped to Fatal.
JoinExtractions(stdout, stderr, output_directory, exit_code, execution_attempts) ==
  IF ~stdout.ok THEN Fatal(stdout.message)
  ELSE IF ~stderr.ok THEN Fatal(stderr.message)
  ELSE IF ~output_directory.ok THEN Fatal(output_directory.message)
  ELSE Done(FallibleExecuteProcessResult(stdout.value, stderr.value, exit_code,
                                         output_directory.value, execution_attempts))

populate_fallible_execution_result(store, execute_response, execution_attempts) ==
  JoinExtractions(extract_stdout(store, execute_response),
                  extract_stderr(store, execute_response),
                  extract_output_files(store, execute_response),
                  execute_response.result.exit_code, execution_attempts)

\* The byte strings the extractions that succeed put into the store.
StoredByPopulate(store, execute_response) ==
  extract_stdout(store, execute_response).stored
    \cup extract_stderr(store, execute_response).stored
    \cup extract_output_files(store, execute_response).stored

\* Whether extract_execute_response gets past the parse of the response, where
\* it starts to write to the history.
ReachesResponse(oos) ==
  /\ oos.tag = "Operation"
  /\ oos.operation.done
  /\ ~oos.operation.has_error
  /\ oos.operation.has_response
  /\ oos.operation.response_parses

\* The history as extract_execute_response leaves it (attempts: &mut).
HistoryAfterExtract(oos, history) ==
  IF ~ReachesResponse(oos) THEN history
  ELSE LET r == oos.operation.response IN
       [attempts |-> <<>>,
        current_attempt |-> IF r.result.has_execution_metadata
                              THEN RecordMetadata(history.current_attempt, r)
                              ELSE history.current_attempt]

\* The workunits extract_execute_response adds to the workunit store.
WorkunitsOfExtract(oos) ==
  IF ReachesResponse(oos) /\ oos.operation.response.result.has_execution_metadata
    THEN MetadataWorkunits(oos.operation.response)
    ELSE <<>>

\* A classifier that looks at the error before it looks at done.
extract_execute_response_error_first(oos, history, store) ==
  IF oos.tag = "Operation" THEN
    LET op == oos.operation IN
    IF op.has_error THEN Fatal(format_error(op.error))
    ELSE IF ~op.done THEN NotFinished(op.name)
    ELSE IF ~op.has_response
      THEN Fatal(<<"Operation finished but no response supplied">>)
    ELSE IF ~op.response_parses THEN Fatal(<<"Invalid ExecuteResponse">>)
    ELSE IF op.response.status.code = "OK"
      THEN populate_fallible_execution_result(store, op.response,
             Append(history.attempts, HistoryAfterExtract(oos, history).current_attempt))
    ELSE ClassifyStatus(op.response.status)
  ELSE ClassifyStatus(oos.status)

\* A classifier that takes an RPC-level status as it takes the error of an
\* Operation.
extract_execute_response_status_fatal(oos, history, store) ==
  IF oos.tag = "Status" THEN Fatal(format_error(oos.status))
  ELSE IF ~oos.operation.done THEN NotFinished(oos.operation.name)
  ELSE extract_execute_response_error_first(oos, history, store)

\* CommandRunner::extract_execute_response: the classification.
extract_execute_response(oos, history, store) ==
  IF oos.tag = "Operation" THEN
    LET operation == oos.operation IN
    IF ~operation.done THEN NotFinished(operation.name)
    ELSE IF operation.has_error THEN Fatal(format_error(operation.error))
    ELSE IF ~operation.has_response
      THEN Fatal(<<"Operation finished but no response supplied">>)
    ELSE IF ~operation.response_parses THEN Fatal(<<"Invalid ExecuteResponse">>)
    ELSE LET after == HistoryAfterExtract(oos, history)
             execution_attempts == Append(history.attempts, after.current_attempt)
         IN IF operation.response.status.code = "OK"
              THEN populate_fallible_execution_result(store, operation.response,
                                                      execution_attempts)
              ELSE ClassifyStatus(operation.response.status)
  ELSE ClassifyStatus(oos.status)

\* Whether the future extract_execute_response returns can be pending: only
\* populate_fallible_execution_result awaits the store.
ExtractCanSuspend(oos) ==
  ReachesResponse(oos) /\ oos.operation.response.status.code = "OK"

(***************************************************************************)
(* grpcio::Error as the RPC helpers see it.                                *)
(* kind is "RpcFailure" (status: the RpcStatusCode; has_status_proto and   *)
(* status_proto: the status_proto_bytes) or "Other" (any other variant).   *)
(***************************************************************************)
RpcFailure(status, has_status_proto, status_proto) ==
  [kind |-> "RpcFailure", status |-> status, has_status_proto |-> has_status_proto,
   status_proto |-> status_proto]
OtherError == [kind |-> "Other", status |-> "", has_status_proto |-> FALSE,
               status_proto |-> DefaultStatus]

rpcerror_to_string(error) ==
  IF error.kind = "RpcFailure" THEN <<error.status, ": ", "[no message]">>
  ELSE <<"grpcio::Error">>

\* A recovery that fabricates a finished Operation.
rpcerror_recover_cancelled_as_done(operation_name, err) ==
  IF err.kind = "RpcFailure" /\ err.status = "CANCELLED"
    THEN [ok |-> TRUE,
          operation |-> [DefaultOperation EXCEPT !.name = operation_name, !.done = TRUE],
          err |-> err]
    ELSE [ok |-> FALSE, operation |-> DefaultOperation, err |-> err]
\* No recovery at all.
rpcerror_never_recovered(operation_name, err) ==
  [ok |-> FALSE, operation |-> DefaultOperation, err |-> err]

\* Ok(operation) when the error is an RpcFailure with status Cancelled.
rpcerror_recover_cancelled(operation_name, err) ==
  IF err.kind = "RpcFailure" /\ err.status = "CANCELLED"
    THEN [ok |-> TRUE,
          operation |-> [DefaultOperation EXCEPT !.name = operation_name],
          err |-> err]
    ELSE [ok |-> FALSE, operation |-> DefaultOperation, err |-> err]

\* Err(string) for every error, the status proto of a failure left unread.
rpcerror_to_string_only(error) ==
  [ok |-> FALSE, status |-> DefaultStatus, message |-> rpcerror_to_string(error)]

\* Ok(status) when the failure carries status_proto_bytes, else Err(string).
rpcerror_to_status_or_string(error) ==
  IF error.kind = "RpcFailure" /\ error.has_status_proto
    THEN [ok |-> TRUE, status |-> error.status_proto, message |-> <<>>]
    ELSE [ok |-> FALSE, status |-> DefaultStatus, message |-> rpcerror_to_string(error)]

(***************************************************************************)
(* CancelRemoteExecutionToken.  execute is the number of the Execute RPC   *)
(* whose response created the token; it is not a field of the struct and   *)
(* only tells the operations of one run apart.                             *)
(***************************************************************************)
\* A token that starts disarmed.
CancelRemoteExecutionToken_new_disarmed(operation_name, execute) ==
  [operation_name |-> operation_name, send_cancellation_on_drop |-> FALSE,
   execute |-> execute]

CancelRemoteExecutionToken_new(operation_name, execute) ==
  [operation_name |-> operation_name, send_cancellation_on_drop |-> TRUE,
   execute |-> execute]

\* A disarm that leaves the flag as it is.
leave_send_cancellation_on_drop(token) == token

do_not_send_cancellation_on_drop(token) ==
  [token EXCEPT !.send_cancellation_on_drop = FALSE]

\* The `if let Some(mut token) = maybe_token { token.do_not_send...() }` of run.
Disarm(maybe_token) ==
  IF IsSome(maybe_token) THEN Some(do_not_send_cancellation_on_drop(Unwrap(maybe_token)))
  ELSE maybe_token

\* A drop that sends its request twice.
DropSendingTwice(maybe_token, cancel_requests, scheduled) ==
  IF IsSome(maybe_token) /\ Unwrap(maybe_token).send_cancellation_on_drop
    THEN cancel_requests
         \o << [name |-> Unwrap(maybe_token).operation_name,
                execute |-> Unwrap(maybe_token).execute,
                state |-> IF scheduled THEN "in_flight" ELSE "not_scheduled"],
               [name |-> Unwrap(maybe_token).operation_name,
                execute |-> Unwrap(maybe_token).execute,
                state |-> IF scheduled THEN "in_flight" ELSE "not_scheduled"] >>
    ELSE cancel_requests

\* A drop that sends nothing.
DropSilently(maybe_token, cancel_requests, scheduled) == cancel_requests

\* Drop for CancelRemoteExecutionToken, applied to an Option of it: the
\* CancelOperation requests after the drop.  scheduled is whether
\* cancel_operation_async returned Ok(receiver), which is then spawned on the
\* executor (its completion is only logged), or Err, which is only logged.
Drop(maybe_token, cancel_requests, scheduled) ==
  IF IsSome(maybe_token) /\ Unwrap(maybe_token).send_cancellation_on_drop
    THEN Append(cancel_requests,
                [name |-> Unwrap(maybe_token).operation_name,
                 execute |-> Unwrap(maybe_token).execute,
                 state |-> IF scheduled THEN "in_flight" ELSE "not_scheduled"])
    ELSE cancel_requests

\* A token made of whatever Execute returned.
TokenFor_any_reply(oos, execute) ==
  Some(CancelRemoteExecutionToken_new(oos.operation.name, execute))

\* The token run makes of an Execute reply.
TokenFor(oos, execute) ==
  IF oos.tag = "Operation"
    THEN Some(CancelRemoteExecutionToken_new(oos.operation.name, execute))
    ELSE None

\* A backoff without the cap, and one that does not grow.
backoff_period_uncapped(iter_num) == (1 + iter_num) * BACKOFF_INCR_WAIT_MILLIS
backoff_period_constant(iter_num) == BACKOFF_INCR_WAIT_MILLIS

backoff_period(iter_num) ==
  min(BACKOFF_MAX_WAIT_MILLIS, (1 + iter_num) * BACKOFF_INCR_WAIT_MILLIS)

(***************************************************************************)
(* make_execute_request.                                                   *)
(* Strings that are ordered (environment names, paths) come from a small   *)
(* universe whose orders are written out: StringOrder is the order of      *)
(* str (bytewise), PathOrder the order of PathBuf (by components), which   *)
(* is the iteration order of a BTreeSet<PathBuf>.                          *)
(***************************************************************************)
StringOrder == <<"HOME", "PANTS_CACHE_KEY_GEN_VERSION", "SOME", "a-b", "a/b", "other/file", "path/to/file">>
PathOrder == <<"HOME", "PANTS_CACHE_KEY_GEN_VERSION", "SOME", "a/b", "a-b", "other/file", "path/to/file">>
\* A path that is not valid UTF-8 (Path::to_str gives None).
NonUtf8Path == "\\xff"

RECURSIVE InOrder(_, _, _)
InOrder(order, set, i) ==
  IF i > Len(order) THEN <<>>
  ELSE (IF order[i] \in set THEN <<order[i]>> ELSE <<>>) \o InOrder(order, set, i + 1)
\* Ord for str: the place of a string in StringOrder.
StringRank(string) == CHOOSE i \in DOMAIN StringOrder : StringOrder[i] = string
\* A sort that leaves the vector as it is.
unsorted(strings) == strings
\* Vec<String>::sort, as an insertion sort
RECURSIVE insert(_, _)
insert(sorted, string) ==
  IF sorted = <<>> THEN <<string>>
  ELSE IF StringRank(string) <= StringRank(sorted[1]) THEN <<string>> \o sorted
  ELSE <<sorted[1]>> \o insert(Tail(sorted), string)
RECURSIVE sort(_)
sort(strings) ==
  IF strings = <<>> THEN <<>> ELSE insert(sort(Tail(strings)), strings[1])
\* BTreeSet<PathBuf>::iter, the non-UTF-8 path last
BTreeSetIter(paths) ==
  InOrder(PathOrder, paths, 1) \o (IF NonUtf8Path \in paths THEN <<NonUtf8Path>> ELSE <<>>)
\* A map that iterates from its greatest name to its least.
BTreeMapIterDescending(env) ==
  LET names == InOrder(StringOrder, DOMAIN env, 1)
  IN [i \in 1..Len(names) |-> [name |-> names[Len(names) + 1 - i],
                               value |-> env[names[Len(names) + 1 - i]]]]
\* BTreeMap<String, String>::iter: the entries by name
BTreeMapIter(env) ==
  LET names == InOrder(StringOrder, DOMAIN env, 1)
  IN [i \in 1..Len(names) |-> [name |-> names[i], value |-> env[names[i]]]]

ExecuteProcessRequest(argv, env, input_files, output_files, output_directories, timeout, description, jdk_home, target_platform) ==
  [argv |-> argv, env |-> env, input_files |-> input_files,
   output_files |-> output_files, output_directories |-> output_directories,
   timeout |-> timeout, description |-> description, jdk_home |-> jdk_home,
   target_platform |-> target_platform]
ExecuteProcessRequestMetadata(instance_name, cache_key_gen_version, platform_properties) ==
  [instance_name |-> instance_name, cache_key_gen_version |-> cache_key_gen_version,
   platform_properties |-> platform_properties]

\* Message::write_to_bytes for a Command or an Action: the fields in the order
\* of their numbers.
write_to_bytes(message) ==
  IF "arguments" \in DOMAIN message
    THEN <<"Command", message.arguments,
           [i \in DOMAIN message.environment_variables |->
              <<message.environment_variables[i].name,
                message.environment_variables[i].value>>],
           message.output_files, message.output_directories, message.platform>>
    ELSE <<"Action", message.command_digest.fingerprint, message.command_digest.size,
           message.input_root_digest.fingerprint, message.input_root_digest.size>>
\* digest(message): SHA-256 and length of the serialized message.  The hash is
\* a function of the bytes that tells different messages apart.
digest(message) == Digest(ToString(write_to_bytes(message)), Len(write_to_bytes(message)))

Command(arguments, environment_variables, output_files, output_directories, properties) ==
  [arguments |-> arguments, environment_variables |-> environment_variables,
   output_files |-> output_files, output_directories |-> output_directories,
   platform |-> properties]

MakeResult(ok, message, action, command, execute_request) ==
  [ok |-> ok, message |-> message, action |-> action, command |-> command,
   execute_request |-> execute_request]
DefaultExecuteRequest == [instance_name |-> None, action_digest |-> EMPTY_DIGEST]
\* An error that is taken for a triple.
MakeErrorAccepted(message) ==
  MakeResult(TRUE, message, [command_digest |-> EMPTY_DIGEST, input_root_digest |-> EMPTY_DIGEST],
             Command(<<>>, <<>>, <<>>, <<>>, <<>>), DefaultExecuteRequest)
MakeError(message) ==
  MakeResult(FALSE, message, [command_digest |-> EMPTY_DIGEST, input_root_digest |-> EMPTY_DIGEST],
             Command(<<>>, <<>>, <<>>, <<>>, <<>>), DefaultExecuteRequest)

\* Properties whose JDK symlink entry carries the path of jdk_home.
PlatformOfJdkPath(req, platform_properties) ==
  platform_properties
  \o (IF IsSome(req.jdk_home) THEN << <<"JDK_SYMLINK", Unwrap(req.jdk_home)>> >> ELSE <<>>)
  \o << <<"target_platform", req.target_platform>> >>

\* Properties with the target platform pushed before the JDK symlink.
PlatformOfTargetFirst(req, platform_properties) ==
  platform_properties
  \o << <<"target_platform", req.target_platform>> >>
  \o (IF IsSome(req.jdk_home) THEN << <<"JDK_SYMLINK", ".jdk">> >> ELSE <<>>)
\* The properties of the Command's Platform: the two pushes onto the
\* metadata's properties and the loop that copies them.
PlatformOf(req, platform_properties) ==
  platform_properties
  \o (IF IsSome(req.jdk_home) THEN << <<"JDK_SYMLINK", ".jdk">> >> ELSE <<>>)
  \o << <<"target_platform", req.target_platform>> >>

\* An ExecuteRequest that names the Command where it should name the Action.
ExecuteRequestOfCommand(instance_name, action) ==
  [instance_name |-> instance_name, action_digest |-> action.command_digest]
\* The ExecuteRequest of an Action: the instance name is set if there is one.
ExecuteRequestOf(instance_name, action) ==
  [instance_name |-> instance_name, action_digest |-> digest(action)]

make_execute_request(req, metadata) ==
  IF CACHE_KEY_GEN_VERSION_ENV_VAR_NAME \in DOMAIN req.env
    THEN MakeError(<<"Cannot set env var with name ", CACHE_KEY_GEN_VERSION_ENV_VAR_NAME,
                     " as that is reserved for internal use by pants">>)
  ELSE IF NonUtf8Path \in req.output_files
    THEN MakeError(<<"Non-UTF8 output file path: ", NonUtf8Path>>)
  ELSE IF NonUtf8Path \in req.output_directories
    THEN MakeError(<<"Non-UTF8 output directory path: ", NonUtf8Path>>)
  ELSE
    LET environment_variables ==
          BTreeMapIter(req.env)
          \o (IF IsSome(metadata.cache_key_gen_version)
                THEN <<[name |-> CACHE_KEY_GEN_VERSION_ENV_VAR_NAME,
                        value |-> Unwrap(metadata.cache_key_gen_version)]>>
                ELSE <<>>)
        platform_properties == PlatformOf(req, metadata.platform_properties)
        command == Command(req.argv, environment_variables,
                           sort(BTreeSetIter(req.output_files)),
                           sort(BTreeSetIter(req.output_directories)), platform_properties)
        action == [command_digest |-> digest(command), input_root_digest |-> req.input_files]
        execute_request == ExecuteRequestOf(metadata.instance_name, action)
    IN MakeResult(TRUE, <<>>, action, command, execute_request)

(***************************************************************************)
(* extract_compatible_request.  A MultiPlatformExecuteProcessRequest is a  *)
(* function from pairs of platforms to requests (BTreeMap).                *)
(***************************************************************************)
\* enum Platform
Platforms == {"None", "Darwin", "Linux"}

\* The constraints in the order the loop tries them.
CompatibleConstraints(self_platform, current_platform) ==
  << <<"None", "None">>, <<self_platform, "None">>, <<self_platform, current_platform>> >>

\* A loop that tries the constraints from the last to the first.
RECURSIVE FirstCompatibleReversed(_, _, _)
FirstCompatibleReversed(constraints, i, multi) ==
  IF i > Len(constraints) THEN None
  ELSE IF constraints[Len(constraints) + 1 - i] \in DOMAIN multi
    THEN Some(multi[constraints[Len(constraints) + 1 - i]])
  ELSE FirstCompatibleReversed(constraints, i + 1, multi)

\* The for loop: the request of the first constraint that is a key.
RECURSIVE FirstCompatible(_, _, _)
FirstCompatible(constraints, i, multi) ==
  IF i > Len(constraints) THEN None
  ELSE IF constraints[i] \in DOMAIN multi THEN Some(multi[constraints[i]])
  ELSE FirstCompatible(constraints, i + 1, multi)

extract_compatible_request(self_platform, current_platform, multi) ==
  FirstCompatible(CompatibleConstraints(self_platform, current_platform), 1, multi)

(***************************************************************************)
(* The requests and the server's replies the model draws from.             *)
(***************************************************************************)
EchoRequest(timeout) ==
  ExecuteProcessRequest(<<"/bin/echo", "yo">>, [n \in {"SOME"} |-> "value"], Digest("f1", 3),
                        {"path/to/file", "other/file"}, {"a/b"}, timeout, "echo-a-foo",
                        None, "none")
Requests ==
  {EchoRequest(t) : t \in Timeouts}
  \cup {[EchoRequest(1500) EXCEPT !.env = [n \in {CACHE_KEY_GEN_VERSION_ENV_VAR_NAME} |-> "1"]],
        [EchoRequest(1500) EXCEPT !.output_files = {"a/b", NonUtf8Path}],
        [EchoRequest(1500) EXCEPT !.output_directories = {"a/b", NonUtf8Path}]}
RunnerMetadata == ExecuteProcessRequestMetadata(None, Some("meep"), <<>>)

InternalError == Status("INTERNAL", "Something went wrong", <<>>)
MissingStatus ==
  Status("FAILED_PRECONDITION", "",
         <<Detail(PreconditionFailureTypeUrl, TRUE,
                  <<Violation("MISSING", MissingSubject("f1", "3"))>>)>>)
SuccessResponse ==
  ExecuteResponse(DefaultStatus, FALSE,
    ActionResult(0, <<"foo">>, TRUE,
      ExecutedActionMetadata(Span(0, 100), Span(100, 200), Span(200, 300), Span(300, 400))))

\* The Operation messages a server may send under a given name.
ServerOperations(name) ==
  { Operation(name, FALSE, FALSE, DefaultStatus, FALSE, FALSE, DefaultResponse),
    Operation(name, FALSE, TRUE, InternalError, TRUE, TRUE, SuccessResponse),
    Operation(name, TRUE, TRUE, InternalError, FALSE, FALSE, DefaultResponse),
    Operation(name, TRUE, TRUE, InternalError, TRUE, TRUE, SuccessResponse),
    Operation(name, TRUE, FALSE, DefaultStatus, FALSE, FALSE, DefaultResponse),
    Operation(name, TRUE, FALSE, DefaultStatus, TRUE, FALSE, DefaultResponse),
    Operation(name, TRUE, FALSE, DefaultStatus, TRUE, TRUE, SuccessResponse),
    Operation(name, TRUE, FALSE, DefaultStatus, TRUE, TRUE,
              [DefaultResponse EXCEPT !.status = MissingStatus]),
    Operation(name, TRUE, FALSE, DefaultStatus, TRUE, TRUE,
              [DefaultResponse EXCEPT !.status = InternalError]) }

\* grpcio::Error values an RPC may fail with.
RpcErrors ==
  { RpcFailure("FAILED_PRECONDITION", TRUE, MissingStatus),
    RpcFailure("INTERNAL", TRUE, InternalError),
    RpcFailure("UNKNOWN", TRUE, DefaultStatus),
    RpcFailure("UNAVAILABLE", FALSE, DefaultStatus),
    RpcFailure("CANCELLED", FALSE, DefaultStatus),
    OtherError }

\* What the Execute stream yields: its first message, its end, or an error.
\* n is the number of the Execute call.
StreamReply(kind, operation, error) == [kind |-> kind, operation |-> operation, error |-> error]
NoReply == StreamReply("None", DefaultOperation, OtherError)
ExecuteReplies(n) ==
  {StreamReply("Message", op, OtherError) : op \in ServerOperations(OperationNames[n])}
  \cup {StreamReply("End", DefaultOperation, OtherError)}
  \cup {StreamReply("Error", DefaultOperation, e) : e \in RpcErrors}

\* What get_operation_opt returns for a request naming `name`: the operation of
\* that name, or an error.
GetOperationReplies(name) ==
  {StreamReply("Message", op, OtherError) : op \in ServerOperations(name)}
  \cup {StreamReply("Error", DefaultOperation, e) :
          e \in {RpcFailure("CANCELLED", FALSE, DefaultStatus),
                 RpcFailure("UNAVAILABLE", FALSE, DefaultStatus), OtherError}}

(***************************************************************************)
(* Tasks, the registry of rules (tasks.rs).                                *)
(* A Rule is an Intrinsic or a Task; two rules are equal when they are of  *)
(* the same variant and all their fields are equal (derive(Eq)).  The rule *)
(* map is a function from the products that have an entry to the list of   *)
(* the rules registered for them.  A call that fails its assert! or its    *)
(* expect panics: ok is FALSE and the fields are what the call had written *)
(* when it panicked; message is the text of the panic, without the        *)
(* backquotes around end() and begin().                                    *)
(***************************************************************************)
Select_new(product) == [product |-> product]
Get(product, subject) == [product |-> product, subject |-> subject]
Intrinsic(product, input) == [product |-> product, input |-> input]
Task(product, clause, gets, func, cacheable) ==
  [product |-> product, clause |-> clause, gets |-> gets, func |-> func,
   cacheable |-> cacheable]
Rule_Intrinsic(intrinsic) == [tag |-> "Intrinsic", rule |-> intrinsic]
Rule_Task(task) == [tag |-> "Task", rule |-> task]

\* Tasks::new
Tasks_new == [rules |-> [p \in {} |-> <<>>], preparing |-> None]

\* as_map: the rule map itself.
as_map(tasks) == tasks.rules

\* The outcome of a call on a Tasks object.
TasksOk(map, prep) == [ok |-> TRUE, rules |-> map, preparing |-> prep, message |-> ""]
TasksPanic(map, prep, message) ==
  [ok |-> FALSE, rules |-> map, preparing |-> prep, message |-> message]

\* self.rules.entry(product).or_insert_with(Vec::new)
or_insert_empty(map, product) ==
  [p \in DOMAIN map \cup {product} |-> IF p \in DOMAIN map THEN map[p] ELSE <<>>]

\* rules.contains(&rule)
Vec_contains(list, rule) == \E i \in DOMAIN list : list[i] = rule

\* An insert_rule without its assertion.
insert_rule_unchecked(tasks, product, rule) ==
  TasksOk([or_insert_empty(tasks.rules, product) EXCEPT ![product] = Append(@, rule)],
          tasks.preparing)

\* insert_rule: the entry of the product is made if there is none, the
\* assertion looks for the rule in it, and the rule is pushed.
insert_rule(tasks, product, rule) ==
  IF Vec_contains(or_insert_empty(tasks.rules, product)[product], rule)
    THEN TasksPanic(or_insert_empty(tasks.rules, product), tasks.preparing,
                    "was double-registered")
    ELSE TasksOk([or_insert_empty(tasks.rules, product) EXCEPT ![product] = Append(@, rule)],
                 tasks.preparing)

\* The vec! of intrinsics_set, in its order.
IntrinsicsOf(types) ==
  << Intrinsic(types.directory_digest, types.input_files_content),
     Intrinsic(types.snapshot, types.path_globs),
     Intrinsic(types.snapshot, types.url_to_fetch),
     Intrinsic(types.snapshot, types.directory_digest),
     Intrinsic(types.files_content, types.directory_digest),
     Intrinsic(types.directory_digest, types.directories_to_merge),
     Intrinsic(types.directory_digest, types.directory_with_prefix_to_strip),
     Intrinsic(types.process_result, types.multi_platform_process_request) >>

\* The loop of intrinsics_set from the i-th intrinsic on: it ends with the
\* first insert_rule that panics.
RECURSIVE InsertFrom(_, _, _)
InsertFrom(tasks, intrinsics, i) ==
  IF i > Len(intrinsics) THEN TasksOk(tasks.rules, tasks.preparing)
  ELSE IF ~insert_rule(tasks, intrinsics[i].product, Rule_Intrinsic(intrinsics[i])).ok
    THEN insert_rule(tasks, intrinsics[i].product, Rule_Intrinsic(intrinsics[i]))
  ELSE InsertFrom(insert_rule(tasks, intrinsics[i].product, Rule_Intrinsic(intrinsics[i])),
                  intrinsics, i + 1)

intrinsics_set(tasks, types) == InsertFrom(tasks, IntrinsicsOf(types), 1)

\* A task_begin without its assertion.
task_begin_unchecked(tasks, func, product, cacheable) ==
  TasksOk(tasks.rules, Some(Task(product, <<>>, <<>>, func, cacheable)))

task_begin(tasks, func, product, cacheable) ==
  IF IsSome(tasks.preparing)
    THEN TasksPanic(tasks.rules, tasks.preparing,
                    "Must end() the previous task creation before beginning a new one!")
    ELSE TasksOk(tasks.rules, Some(Task(product, <<>>, <<>>, func, cacheable)))

add_get(tasks, product, subject) ==
  IF ~IsSome(tasks.preparing)
    THEN TasksPanic(tasks.rules, tasks.preparing,
                    "Must begin() a task creation before adding gets!")
    ELSE TasksOk(tasks.rules,
                 Some([Unwrap(tasks.preparing) EXCEPT !.gets = Append(@, Get(product, subject))]))

add_select(tasks, product) ==
  IF ~IsSome(tasks.preparing)
    THEN TasksPanic(tasks.rules, tasks.preparing,
                    "Must begin() a task creation before adding clauses!")
    ELSE TasksOk(tasks.rules,
                 Some([Unwrap(tasks.preparing) EXCEPT !.clause = Append(@, Select_new(product))]))

\* task_end: preparing.take(), then insert_rule of what was taken.
task_end(tasks) ==
  IF ~IsSome(tasks.preparing)
    THEN TasksPanic(tasks.rules, None, "Must begin() a task creation before ending it!")
    ELSE insert_rule([rules |-> tasks.rules, preparing |-> None],
                     Unwrap(tasks.preparing).product, Rule_Task(Unwrap(tasks.preparing)))

(***************************************************************************)
(* CommandRunner::run as a state machine.                                  *)
(*                                                                         *)
(* pc is the point the future returned by run has reached:                 *)
(*   "Start"           run has not been called                             *)
(*   "StoringLocally"  awaiting store_proto_locally of Command and Action  *)
(*   "SyncingRemote"   awaiting the first ensure_remote_has_recursive      *)
(*   "Executing"       awaiting the first message of an Execute stream     *)
(*   "Extracting"      in the loop body, extract_execute_response called   *)
(*   "Sleeping"        awaiting the backoff Delay                          *)
(*   "GetOperation"    inside the blocking get_operation_opt call          *)
(*   "Uploading"       awaiting ensure_remote_has_recursive(missing)       *)
(*   "Returned"        resolved, with `result`                             *)
(*   "Dropped"         dropped by the caller before it resolved            *)
(*   "Panicked"        unwound out of the unreachable!() arm               *)
(***************************************************************************)
VARIABLES
  pc,
  multi_request,      \* the MultiPlatformExecuteProcessRequest run is called with
  platform,           \* self.platform
  host_platform,      \* Platform::current_platform()
  metadata,           \* self.metadata
  compatible_request, \* what extract_compatible_request returned: Option
  execute_request_result, \* what make_execute_request returned
  req,                \* the compatible ExecuteProcessRequest
  execute_request,    \* the ExecuteRequest built once and sent by every Execute
  now,                \* the clock, ms since run was called
  start_time,         \* Instant::now() taken when the loop is entered
  history,            \* ExecutionHistory
  operation,          \* the OperationOrStatus the loop holds
  maybe_cancel_remote_exec_token,
  iter_num,
  backoff,            \* the period of the Delay being awaited
  operation_request,  \* the name in the GetOperationRequest
  missing,            \* the digests of the MissingDigests being recovered
  result,             \* what run resolved to
  cancel_requests,    \* CancelOperation requests made by dropped tokens, in order
  executes,           \* the ExecuteRequests sent, in order
  uploads,            \* the digest lists given to ensure_remote_has_recursive
  get_operations,     \* GetOperation RPCs issued in the run
  getops_in_attempt,  \* GetOperation RPCs issued since the last Execute
  last_getop_at,      \* the clock when the last GetOperation was issued
  getop_reply,        \* what the last get_operation_opt call returned
  last_operation,     \* the Operation most recently received: Option of [name, execute]
  classified,         \* the outcome of the last extract_execute_response
  workunits,          \* names of the workunits in the WorkUnitStore
  local_store,        \* the byte strings the local store holds
  in_flight,          \* the Execute and GetOperation calls that are open
  rules,              \* Tasks.rules: product -> list of the rules providing it
  preparing,          \* Tasks.preparing: Option of the Task being defined
  tasks_calls,        \* the calls the Tasks object has accepted, in order
  tasks_failed        \* the call on the Tasks object that panicked: Option

\* What run is called with, and what it computes before its first await.
tasks_vars == <<rules, preparing, tasks_calls, tasks_failed>>

start_vars == <<multi_request, platform, host_platform, metadata, compatible_request,
                execute_request_result>>

vars == <<pc, tasks_vars, start_vars, req, execute_request, now, start_time, history, operation,
          maybe_cancel_remote_exec_token, iter_num, backoff, operation_request,
          missing, result, cancel_requests, executes, uploads, get_operations,
          getops_in_attempt, last_getop_at, getop_reply, last_operation,
          classified, workunits, local_store, in_flight>>

NoResult == [tag |-> "None", value |-> DefaultResult, error |-> <<>>]
Ok(value) == [tag |-> "Ok", value |-> value, error |-> <<>>]
Err(message) == [tag |-> "Err", value |-> DefaultResult, error |-> message]
NoOutcome == Outcome("None", "", <<>>, <<>>, DefaultResult)

\* Before run is called.  The fields of the runner and the request are given
\* by the specification's own initial predicate.
NotStarted ==
  /\ pc = "Start"
  /\ compatible_request = None
  /\ execute_request_result = MakeError(<<>>)
  /\ req = EchoRequest(0)
  /\ execute_request = DefaultExecuteRequest
  /\ now = 0
  /\ start_time = 0
  /\ history = ExecutionHistory_default
  /\ operation = OperationOrStatus_Status(DefaultStatus)
  /\ maybe_cancel_remote_exec_token = None
  /\ iter_num = 0
  /\ backoff = 0
  /\ operation_request = ""
  /\ missing = <<>>
  /\ result = NoResult
  /\ cancel_requests = <<>>
  /\ executes = <<>>
  /\ uploads = <<>>
  /\ get_operations = 0
  /\ getops_in_attempt = 0
  /\ last_getop_at = 0
  /\ getop_reply = NoReply
  /\ last_operation = None
  /\ classified = NoOutcome
  /\ workunits = <<>>
  /\ in_flight = 0
  /\ rules = Tasks_new.rules
  /\ preparing = Tasks_new.preparing
  /\ tasks_calls = <<>>
  /\ tasks_failed = None

\* A runner for Linux on a Linux host, called with a request that has one
\* entry, for every platform.
Init ==
  /\ NotStarted
  /\ local_store = {}
  /\ multi_request \in {[key \in {<<"None", "None">>} |-> r] : r \in Requests}
  /\ platform = "Linux"
  /\ host_platform = "Linux"
  /\ metadata = RunnerMetadata

\* run resolves: the loop state is released.
Resolve(res, token, scheduled) ==
  /\ pc' = "Returned"
  /\ result' = res
  /\ cancel_requests' = Drop(token, cancel_requests, scheduled)
  /\ maybe_cancel_remote_exec_token' = None

\* A budget that never runs out.
TimedOut_never(elapsed, timeout) == FALSE

\* elapsed > timeout
TimedOut(elapsed, timeout) == elapsed > timeout

\* A timeout result whose exit code lost its sign.
TimeoutResultPositiveSignal(hist, timeout, elapsed, operation_name, description) ==
  FallibleExecuteProcessResult(
    <<"Exceeded timeout of ", ToString(timeout), " with ", ToString(elapsed),
      " for operation ", operation_name, ", ", description>>,
    <<>>,
    SIGTERM,
    EMPTY_DIGEST,
    Append(hist.attempts, [hist.current_attempt EXCEPT !.remote_execution = Some(elapsed)]))

\* The result run synthesizes when the request timeout is exceeded.
TimeoutResult(hist, timeout, elapsed, operation_name, description) ==
  FallibleExecuteProcessResult(
    <<"Exceeded timeout of ", ToString(timeout), " with ", ToString(elapsed),
      " for operation ", operation_name, ", ", description>>,
    <<>>,
    -SIGTERM,
    EMPTY_DIGEST,
    Append(hist.attempts, [hist.current_attempt EXCEPT !.remote_execution = Some(elapsed)]))

\* The history the MissingDigests arm goes on with.
PushAttempt(hist) ==
  [attempts |-> Append(hist.attempts, hist.current_attempt),
   current_attempt |-> ExecutionStats_default]

\* run up to the first await: extract_compatible_request and the unwrap of what
\* it returns, make_execute_request and its error arm.
RunStart ==
  /\ pc = "Start"
  /\ LET compatible == extract_compatible_request(platform, host_platform, multi_request) IN
     /\ compatible_request' = compatible
     /\ IF ~IsSome(compatible)
          THEN /\ pc' = "Panicked"
               /\ UNCHANGED <<req, execute_request_result, execute_request, result,
                              cancel_requests, maybe_cancel_remote_exec_token>>
          ELSE LET made == make_execute_request(Unwrap(compatible), metadata) IN
               /\ req' = Unwrap(compatible)
               /\ execute_request_result' = made
               /\ IF made.ok
                    THEN /\ pc' = "StoringLocally"
                         /\ execute_request' = made.execute_request
                         /\ UNCHANGED <<result, cancel_requests,
                                        maybe_cancel_remote_exec_token>>
                    ELSE /\ Resolve(Err(made.message), None, FALSE)
                         /\ UNCHANGED execute_request
  /\ UNCHANGED <<tasks_vars, multi_request, platform, host_platform, metadata, local_store, in_flight, now, start_time, history, operation, iter_num, backoff,
                 operation_request, missing, executes, uploads, get_operations,
                 getops_in_attempt, last_getop_at, getop_reply, last_operation,
                 classified, workunits>>

\* store_proto_locally(&command).join(store_proto_locally(&action)) completes;
\* oks is the outcomes the store may have.  Each call stores the bytes of its
\* message under their digest; when one fails the join fails, whether or not
\* the other has stored.
StoreProtoLocallyOf(oks) ==
  /\ pc = "StoringLocally"
  /\ \E ok \in oks, d \in Latencies,
        stored \in SUBSET {write_to_bytes(execute_request_result.command),
                          write_to_bytes(execute_request_result.action)} :
       /\ ok <=> Cardinality(stored) = 2
       /\ local_store' = local_store \cup stored
       /\ now' = now + d
       /\ IF ok
            THEN /\ pc' = "SyncingRemote"
                 /\ UNCHANGED <<result, cancel_requests, maybe_cancel_remote_exec_token>>
            ELSE Resolve(Err(<<"Error saving proto to local store">>), None, FALSE)
  /\ UNCHANGED <<tasks_vars, start_vars, in_flight, req, execute_request, start_time, history, operation, iter_num,
                 backoff, operation_request, missing, executes, uploads,
                 get_operations, getops_in_attempt, last_getop_at, getop_reply,
                 last_operation, classified, workunits>>

StoreProtoLocally == StoreProtoLocallyOf(BOOLEAN)

\* An Execute that sends an empty request once one has been sent.
oneshot_execute_empty_again(sent, request) ==
  Append(sent, IF sent = <<>> THEN request ELSE DefaultExecuteRequest)

\* oneshot_execute sends the request it is given: the Execute RPCs after it.
oneshot_execute(sent, request) == Append(sent, request)

\* The bound on the Execute RPCs of this run.
ExecuteLimit == IF req.timeout = LongTimeout THEN MaxExecutesLong ELSE MaxExecutes

\* The time the uploads take when the clock is not the subject.
Immediately == {0}

\* ensure_remote_has_recursive(digests) completes; on success the summary is
\* added to the current attempt and oneshot_execute is called.  started is
\* whether execute_opt could start the call (try_future! returns otherwise);
\* oks is the outcomes the upload and the start of the call may have, latencies
\* the times the upload may take.
UploadThenExecute(digests, hist, oks, latencies) ==
  \E ok \in oks, summary \in Summaries, started \in oks, d \in latencies :
    /\ now' = now + d
    /\ IF ~ok
         THEN /\ Resolve(Err(<<"Error uploading digests">>), maybe_cancel_remote_exec_token, FALSE)
              /\ UNCHANGED <<history, uploads, executes, getops_in_attempt, in_flight>>
         ELSE /\ uploads' = Append(uploads, digests)
              /\ history' = [hist EXCEPT !.current_attempt = AddSummary(@, summary)]
              /\ IF started
                   THEN /\ Len(executes) < ExecuteLimit
                        /\ executes' = oneshot_execute(executes, execute_request)
                        /\ in_flight' = in_flight + 1
                        /\ getops_in_attempt' = 0
                        /\ pc' = "Executing"
                        /\ UNCHANGED <<result, cancel_requests, maybe_cancel_remote_exec_token>>
                   ELSE /\ Resolve(Err(rpcerror_to_string(OtherError)),
                                   maybe_cancel_remote_exec_token, FALSE)
                        /\ UNCHANGED <<executes, getops_in_attempt, in_flight>>

\* A first upload that leaves the input files out.
initial_digests_without_input(command_digest, action_digest, input_files) ==
  <<command_digest, action_digest>>

\* vec![command_digest, action_digest, input_files]
initial_digests(command_digest, action_digest, input_files) ==
  <<command_digest, action_digest, input_files>>

\* The upload of the command, the action and the input files before the first
\* Execute.
EnsureRemoteHasRecursiveOf(oks) ==
  /\ pc = "SyncingRemote"
  /\ UploadThenExecute(initial_digests(digest(execute_request_result.command),
                                       digest(execute_request_result.action),
                                       req.input_files), history, oks, Immediately)
  /\ UNCHANGED <<tasks_vars, start_vars, local_store, req, execute_request, start_time, operation, iter_num, backoff,
                 operation_request, missing, get_operations, last_getop_at,
                 getop_reply, last_operation, classified, workunits>>

EnsureRemoteHasRecursive == EnsureRemoteHasRecursiveOf(BOOLEAN)

\* The MissingDigests arm after its upload: the same ExecuteRequest again.
UploadMissingOf(oks, latencies) ==
  /\ pc = "Uploading"
  /\ UploadThenExecute(missing, history, oks, latencies)
  /\ UNCHANGED <<tasks_vars, start_vars, local_store, req, execute_request, start_time, operation, iter_num, backoff,
                 operation_request, missing, get_operations, last_getop_at,
                 getop_reply, last_operation, classified, workunits>>

UploadMissing == UploadMissingOf(BOOLEAN, Immediately)

\* A stream that stays open after its first message.
drop_stream_never(open) == open

\* drop(stream), in the map and in the map_err of oneshot_execute: the call
\* ends with the first item of the stream, whatever it is.
drop_stream(open) == open - 1

\* A start instant taken anew at every Execute response.
start_time_every_response(responses, at, previous) == at

\* let start_time = Instant::now(), in the closure that runs when the first
\* oneshot_execute resolves; the loop it enters never runs it again.  responses
\* counts the Execute RPCs that have resolved, this one included.
start_time_at(responses, at, previous) == IF responses = 1 THEN at ELSE previous

\* oneshot_execute resolves and run builds the state the loop goes on with:
\* a cancel token for an Operation, iter_num 0, and, the first time, start_time.
\* replies is what the stream may yield.
ExecuteReturnsOf(replies) ==
  /\ pc = "Executing"
  /\ \E reply \in replies, d \in Latencies :
       LET status_or_string == rpcerror_to_status_or_string(reply.error)
           oos == IF reply.kind = "Message"
                    THEN OperationOrStatus_Operation(reply.operation)
                    ELSE OperationOrStatus_Status(status_or_string.status)
       IN
       /\ now' = now + d
       /\ in_flight' = drop_stream(in_flight)
       /\ IF reply.kind = "Message" \/ (reply.kind = "Error" /\ status_or_string.ok)
            THEN /\ operation' = oos
                 /\ maybe_cancel_remote_exec_token' = TokenFor(oos, Len(executes))
                 /\ iter_num' = 0
                 /\ start_time' = start_time_at(Len(executes), now', start_time)
                 /\ last_operation' = IF oos.tag = "Operation"
                                        THEN Some([name |-> oos.operation.name,
                                                   execute |-> Len(executes)])
                                        ELSE last_operation
                 /\ pc' = "Extracting"
                 /\ UNCHANGED <<result, cancel_requests>>
            ELSE /\ Resolve(Err(IF reply.kind = "End"
                                  THEN <<"Didn't get proper stream response from server during remote execution">>
                                  ELSE status_or_string.message),
                            maybe_cancel_remote_exec_token, FALSE)
                 /\ UNCHANGED <<operation, iter_num, start_time, last_operation>>
  /\ UNCHANGED <<tasks_vars, start_vars, local_store, req, execute_request, history, backoff, operation_request, missing,
                 executes, uploads, get_operations, getops_in_attempt, last_getop_at,
                 getop_reply, classified, workunits>>

ExecuteReturns == ExecuteReturnsOf(ExecuteReplies(Len(executes)))

\* The loop body: the future of extract_execute_response resolves and the
\* closure given to `then` runs to its next await or to the end of the loop.
\* store_ok is the outcome of the store calls when the response is materialized
\* (when one extraction fails the others may or may not have stored),
\* unwinds whether a panic unwinds (it may abort instead).
Classify ==
  /\ pc = "Extracting"
  /\ \E store_ok \in BOOLEAN, scheduled \in BOOLEAN, unwinds \in BOOLEAN :
       LET store == Store(local_store, store_ok)
           value == extract_execute_response(operation, history, store)
           stored == IF ExtractCanSuspend(operation)
                       THEN StoredByPopulate(store, operation.operation.response)
                       ELSE {}
           after == HistoryAfterExtract(operation, history)
           elapsed == now - start_time
           token == maybe_cancel_remote_exec_token
       IN
       /\ classified' = value
       /\ IF value.kind = "Done"
            THEN local_store' = local_store \cup stored
            ELSE \E some \in SUBSET stored : local_store' = local_store \cup some
       /\ getop_reply' = NoReply
       /\ workunits' = workunits \o WorkunitsOfExtract(operation)
       /\ CASE value.kind = "Done" ->
                 /\ Resolve(Ok(value.result), Disarm(token), scheduled)
                 /\ history' = after
                 /\ UNCHANGED <<missing, backoff, operation_request>>
            [] value.kind = "Fatal" ->
                 /\ Resolve(Err(value.message), Disarm(token), scheduled)
                 /\ history' = after
                 /\ UNCHANGED <<missing, backoff, operation_request>>
            [] value.kind = "MissingDigests" ->
                 /\ history' = PushAttempt(after)
                 /\ missing' = value.missing_digests
                 /\ cancel_requests' = Drop(token, cancel_requests, scheduled)
                 /\ maybe_cancel_remote_exec_token' = None
                 /\ pc' = "Uploading"
                 /\ UNCHANGED <<result, backoff, operation_request>>
            [] value.kind = "NotFinished" ->
                 IF TimedOut(elapsed, req.timeout)
                   THEN /\ Resolve(Ok(TimeoutResult(after, req.timeout, elapsed, value.name,
                                                    req.description)),
                                   token, scheduled)
                        /\ history' = after
                        /\ UNCHANGED <<missing, backoff, operation_request>>
                   ELSE /\ operation_request' = value.name
                        /\ backoff' = backoff_period(iter_num)
                        /\ pc' = "Sleeping"
                        /\ history' = after
                        /\ UNCHANGED <<missing, result, cancel_requests,
                                       maybe_cancel_remote_exec_token>>
            [] value.kind = "Panic" ->
                 /\ pc' = "Panicked"
                 /\ cancel_requests' = IF unwinds THEN Drop(token, cancel_requests, scheduled)
                                       ELSE cancel_requests
                 /\ maybe_cancel_remote_exec_token' = None
                 /\ history' = after
                 /\ UNCHANGED <<missing, result, backoff, operation_request>>
  /\ UNCHANGED <<tasks_vars, start_vars, in_flight, req, execute_request, now, start_time, operation, iter_num, executes,
                 uploads, get_operations, getops_in_attempt, last_getop_at,
                 last_operation>>

\* The Delay completes, at its deadline or later, and get_operation_opt is called.
DelayFires ==
  /\ pc = "Sleeping"
  /\ \E j \in Jitters :
       /\ now' = now + backoff + j
       /\ last_getop_at' = now'
  /\ get_operations' = get_operations + 1
  /\ in_flight' = in_flight + 1
  /\ getops_in_attempt' = getops_in_attempt + 1
  /\ pc' = "GetOperation"
  /\ UNCHANGED <<tasks_vars, start_vars, local_store, req, execute_request, start_time, history, operation,
                 maybe_cancel_remote_exec_token, iter_num, backoff, operation_request,
                 missing, result, cancel_requests, executes, uploads, getop_reply,
                 last_operation, classified, workunits>>

\* The Delay fails: map_err makes the error of run, and the closure holding the
\* loop state is released without being called.
DelayErrors ==
  /\ pc = "Sleeping"
  /\ \E scheduled \in BOOLEAN :
       Resolve(Err(<<"Future-Delay errored at operation result polling for ",
                     operation_request, ", ", req.description>>),
               maybe_cancel_remote_exec_token, scheduled)
  /\ UNCHANGED <<tasks_vars, start_vars, local_store, in_flight, req, execute_request, now, start_time, history, operation, iter_num,
                 backoff, operation_request, missing, executes, uploads,
                 get_operations, getops_in_attempt, last_getop_at, getop_reply,
                 last_operation, classified, workunits>>

\* get_operation_opt returns; a Cancelled failure is recovered, any other error
\* ends run, and an Operation continues the loop with iter_num + 1.  replies is
\* what the call may return.
GetOperationReturnsOf(replies) ==
  /\ pc = "GetOperation"
  /\ \E reply \in replies, scheduled \in BOOLEAN :
       LET recovered == rpcerror_recover_cancelled(operation_request, reply.error)
           ok == reply.kind = "Message" \/ recovered.ok
           next_operation == IF reply.kind = "Message" THEN reply.operation
                             ELSE recovered.operation
       IN
       /\ getop_reply' = reply
       /\ in_flight' = in_flight - 1
       /\ IF ok
            THEN /\ operation' = OperationOrStatus_Operation(next_operation)
                 /\ iter_num' = iter_num + 1
                 /\ last_operation' =
                      IF reply.kind = "Message"
                        THEN Some([name |-> next_operation.name,
                                   execute |-> Len(executes)])
                        ELSE last_operation
                 /\ pc' = "Extracting"
                 /\ UNCHANGED <<result, cancel_requests, maybe_cancel_remote_exec_token>>
            ELSE /\ Resolve(Err(rpcerror_to_string(recovered.err)),
                            maybe_cancel_remote_exec_token, scheduled)
                 /\ UNCHANGED <<operation, iter_num, last_operation>>
  /\ UNCHANGED <<tasks_vars, start_vars, local_store, req, execute_request, now, start_time, history, backoff,
                 operation_request, missing, executes, uploads, get_operations,
                 getops_in_attempt, last_getop_at, classified, workunits>>

GetOperationReturns == GetOperationReturnsOf(GetOperationReplies(operation_request))

\* The points at which the future of run is pending, so that its owner can
\* drop it.
Suspended ==
  \/ pc \in {"StoringLocally", "SyncingRemote", "Executing", "Sleeping", "Uploading"}
  \/ pc = "Extracting" /\ ExtractCanSuspend(operation)

\* The caller drops the future: everything it holds is released, the stream
\* of a pending Execute with it.
CallerDrops ==
  /\ Suspended
  /\ pc' = "Dropped"
  /\ in_flight' = IF pc = "Executing" THEN drop_stream(in_flight) ELSE in_flight
  /\ \E scheduled \in BOOLEAN :
       cancel_requests' = Drop(maybe_cancel_remote_exec_token, cancel_requests, scheduled)
  /\ maybe_cancel_remote_exec_token' = None
  /\ UNCHANGED <<tasks_vars, start_vars, local_store, req, execute_request, now, start_time, history, operation, iter_num,
                 backoff, operation_request, missing, result, executes, uploads,
                 get_operations, getops_in_attempt, last_getop_at, getop_reply,
                 last_operation, classified, workunits>>

Next ==
  \/ RunStart
  \/ StoreProtoLocally
  \/ EnsureRemoteHasRecursive
  \/ ExecuteReturns
  \/ Classify
  \/ DelayFires
  \/ DelayErrors
  \/ GetOperationReturns
  \/ UploadMissing
  \/ CallerDrops

Spec == Init /\ [][Next]_vars

(***************************************************************************)
(* A run against a server that never reports the operation done: every     *)
(* Operation it sends is incomplete and GetOperation may fail with          *)
(* Cancelled.  The store and the uploads work, the request is accepted and  *)
(* the caller keeps the future.  The executor keeps polling the future and  *)
(* the timer keeps running, which is the weak fairness of the steps.        *)
(***************************************************************************)
NeverDone(replies) ==
  {r \in replies : r.kind = "Message" /\ ~r.operation.done}
Cancelled(replies) ==
  {r \in replies : r.kind = "Error" /\ r.error.kind = "RpcFailure"
                                   /\ r.error.status = "CANCELLED"}

InitNeverDone == Init /\ make_execute_request(multi_request[<<"None", "None">>], metadata).ok

StoreSucceeds == StoreProtoLocallyOf({TRUE})
SyncSucceeds == EnsureRemoteHasRecursiveOf({TRUE})
ExecuteNeverDone == ExecuteReturnsOf(NeverDone(ExecuteReplies(Len(executes))))
GetOperationNeverDone ==
  GetOperationReturnsOf(NeverDone(GetOperationReplies(operation_request))
                        \cup Cancelled(GetOperationReplies(operation_request)))

NextNeverDone ==
  \/ RunStart
  \/ StoreSucceeds
  \/ SyncSucceeds
  \/ ExecuteNeverDone
  \/ Classify
  \/ DelayFires
  \/ DelayErrors
  \/ GetOperationNeverDone

SpecNeverDone == InitNeverDone /\ [][NextNeverDone]_vars /\ WF_vars(NextNeverDone)

(***************************************************************************)
(* The clock.  The echo request with a short timeout, a store and a first   *)
(* upload that work, and a recovery upload that takes time as the Execute   *)
(* RPCs and the polls do.                                                   *)
(***************************************************************************)
InitBudget ==
  /\ Init
  /\ multi_request[<<"None", "None">>] = EchoRequest(1500)

UploadMissingSlowly == UploadMissingOf({TRUE}, Latencies)

NextBudget ==
  \/ RunStart
  \/ StoreSucceeds
  \/ SyncSucceeds
  \/ ExecuteReturns
  \/ Classify
  \/ DelayFires
  \/ GetOperationReturns
  \/ UploadMissingSlowly

SpecBudget == InitBudget /\ [][NextBudget]_vars

(***************************************************************************)
(* The classification of what the server sends back.  The request is the   *)
(* echo request, the store and the first upload work, and the server       *)
(* answers Execute and GetOperation from a wide set of messages: statuses  *)
(* of every code with zero, one or two details and violation lists of      *)
(* every shape, and responses with every kind of execution metadata.  The  *)
(* upload of missing digests stays pending.                                *)
(***************************************************************************)
\* The longest violation list of a PreconditionFailure.
MaxViolations == 2

\* A violation subject as the server may write it: size strings and hexes.
SizeStrings == {"0", "3", "7", "-1"}
Violations ==
  { Violation("MISSING", MissingSubject("f1", "3")),
    Violation("MISSING", MissingSubject("f2", "7")),
    Violation("OUT_OF_RANGE", MissingSubject("f1", "3")),
    Violation("MISSING", <<"blobs", "/", "f1">>),
    Violation("MISSING", <<"monkeys", "/", "f1", "/", "3">>),
    Violation("MISSING", MissingSubject("xyz", "3")),
    Violation("MISSING", MissingSubject("f1", "-1")),
    Violation("MISSING", <<"blobs", "/", "f1", "/", "3", "/", "0">>) }
ViolationLists == UNION {[1..n -> Violations] : n \in 0..MaxViolations}

MissingDetail ==
  Detail(PreconditionFailureTypeUrl, TRUE, <<Violation("MISSING", MissingSubject("f1", "3"))>>)
FailedPreconditionStatuses ==
  {Status("FAILED_PRECONDITION", "", <<Detail(PreconditionFailureTypeUrl, TRUE, vs)>>) :
     vs \in ViolationLists}
  \cup {Status("FAILED_PRECONDITION", "", <<>>),
        Status("FAILED_PRECONDITION", "", <<MissingDetail, MissingDetail>>),
        Status("FAILED_PRECONDITION", "",
               <<[MissingDetail EXCEPT !.type_url = "type.googleapis.com/google.rpc.BadRequest"]>>),
        Status("FAILED_PRECONDITION", "", <<Detail(PreconditionFailureTypeUrl, FALSE, <<>>)>>)}
OtherStatuses ==
  {Status(code, message, <<>>) : code \in {"CANCELLED", "INTERNAL", "UNAVAILABLE"},
                                 message \in {"", "Something went wrong"}}
  \cup {Status("INTERNAL", "", <<MissingDetail>>)}

\* Timestamp pairs: a span of 100 ms, one that ends before it starts, and one
\* whose timestamps do not convert.
IllFormedSpan == [start |-> 0, end |-> 0, well_formed |-> FALSE]
Spans == {Span(0, 100), Span(100, 0), IllFormedSpan}
Metadatas ==
  {ExecutedActionMetadata(q, f, e, u) : q \in Spans, f \in Spans, e \in Spans, u \in Spans}

ClassifiableResponses ==
  {[DefaultResponse EXCEPT !.status = s] : s \in FailedPreconditionStatuses \cup OtherStatuses}
  \cup {ExecuteResponse(DefaultStatus, cached, ActionResult(0, <<"foo">>, TRUE, m)) :
          cached \in BOOLEAN, m \in Metadatas}
  \cup {ExecuteResponse(s, cached, ActionResult(0, <<"foo">>, has, SuccessResponse.result.metadata)) :
          s \in {DefaultStatus, InternalError, MissingStatus}, cached \in BOOLEAN,
          has \in BOOLEAN}
ClassifiableOperations(name) ==
  ServerOperations(name)
  \cup {Operation(name, TRUE, FALSE, DefaultStatus, TRUE, TRUE, r) : r \in ClassifiableResponses}
ClassifiableErrors ==
  RpcErrors
  \cup {RpcFailure(s.code, TRUE, s) : s \in FailedPreconditionStatuses \cup OtherStatuses}

InitClassify == Init /\ multi_request[<<"None", "None">>] = EchoRequest(1500)

ExecuteClassifiable ==
  ExecuteReturnsOf(
    {StreamReply("Message", op, OtherError) :
       op \in ClassifiableOperations(OperationNames[Len(executes)])}
    \cup {StreamReply("Error", DefaultOperation, e) : e \in ClassifiableErrors})
GetOperationClassifiable ==
  GetOperationReturnsOf(
    {StreamReply("Message", op, OtherError) : op \in ClassifiableOperations(operation_request)}
    \cup GetOperationReplies(operation_request))

NextClassify ==
  \/ RunStart
  \/ StoreSucceeds
  \/ SyncSucceeds
  \/ ExecuteClassifiable
  \/ Classify
  \/ DelayFires
  \/ GetOperationClassifiable

SpecClassify == InitClassify /\ [][NextClassify]_vars

(***************************************************************************)
(* The three ways a server can deliver one failure status: as the error of *)
(* a done Operation, as the status of the ExecuteResponse in a done        *)
(* Operation, and as an Execute RPC failure whose status proto it is.  The *)
(* request is the echo request, the store and the first upload work, and   *)
(* the first Execute is answered with a status of the classifiable ones,   *)
(* delivered in one of the three ways.                                     *)
(***************************************************************************)
FailureStatuses == FailedPreconditionStatuses \cup OtherStatuses
DeliveredAsError(name, status) ==
  Operation(name, TRUE, TRUE, status, FALSE, FALSE, DefaultResponse)
DeliveredInResponse(name, status) ==
  Operation(name, TRUE, FALSE, DefaultStatus, TRUE, TRUE,
            [DefaultResponse EXCEPT !.status = status])
DeliveredAsRpcFailure(status) == RpcFailure(status.code, TRUE, status)

ExecuteDelivers ==
  ExecuteReturnsOf(
    {StreamReply("Message", DeliveredAsError(OperationNames[Len(executes)], s), OtherError) :
       s \in FailureStatuses}
    \cup {StreamReply("Message", DeliveredInResponse(OperationNames[Len(executes)], s),
                      OtherError) : s \in FailureStatuses}
    \cup {StreamReply("Error", DefaultOperation, DeliveredAsRpcFailure(s)) :
            s \in FailureStatuses})

NextPaths ==
  \/ RunStart
  \/ StoreSucceeds
  \/ SyncSucceeds
  \/ ExecuteDelivers
  \/ Classify

SpecPaths == InitClassify /\ [][NextPaths]_vars

(***************************************************************************)
(* Execution metadata of every shape on every kind of done Operation.  The *)
(* request is the echo request, the store and the first upload work, and   *)
(* the first Execute is answered with a done Operation whose response has  *)
(* status OK, INTERNAL or FAILED_PRECONDITION with a missing blob, is       *)
(* cached or not, and has metadata whose four timestamp pairs are each in   *)
(* order, reversed or ill-formed.                                          *)
(***************************************************************************)
ResponsesWithSpans ==
  {ExecuteResponse(s, cached, ActionResult(0, <<"foo">>, TRUE, m)) :
     s \in {DefaultStatus, InternalError, MissingStatus}, cached \in BOOLEAN, m \in Metadatas}

ExecuteWithSpans ==
  ExecuteReturnsOf(
    {StreamReply("Message",
                 Operation(OperationNames[Len(executes)], TRUE, FALSE, DefaultStatus, TRUE, TRUE, r),
                 OtherError) : r \in ResponsesWithSpans})

NextSpans ==
  \/ RunStart
  \/ StoreSucceeds
  \/ SyncSucceeds
  \/ ExecuteWithSpans
  \/ Classify

SpecSpans == InitClassify /\ [][NextSpans]_vars

(***************************************************************************)
(* The materializing of a response.  The echo request, a store and a first  *)
(* upload that work, and a server that answers the Execute with a done     *)
(* Operation whose response has status OK and an ActionResult with stdout   *)
(* and stderr inline or by digest, the digest well-formed or not; the local *)
(* store holds neither, one or both of the blobs the digests name.          *)
(***************************************************************************)
StdoutForms ==
  {[raw |-> <<>>, digest |-> None],
   [raw |-> <<"foo">>, digest |-> None],
   [raw |-> <<>>, digest |-> Some(ProtoDigest("f1", 3))],
   [raw |-> <<"bar">>, digest |-> Some(ProtoDigest("f1", 3))],
   [raw |-> <<>>, digest |-> Some(ProtoDigest("f1", 7))],
   [raw |-> <<>>, digest |-> Some(ProtoDigest("xyz", 3))]}
StderrForms ==
  {[raw |-> <<>>, digest |-> None],
   [raw |-> <<"bar">>, digest |-> None],
   [raw |-> <<>>, digest |-> Some(ProtoDigest("f2", 3))],
   [raw |-> <<>>, digest |-> Some(ProtoDigest("xyz", 3))]}
MaterializableResults ==
  {[ActionResult(0, out.raw, FALSE, DefaultMetadata)
      EXCEPT !.stdout_digest = out.digest, !.stderr_raw = err.raw,
             !.stderr_digest = err.digest] : out \in StdoutForms, err \in StderrForms}
MaterializableOperations(name) ==
  {Operation(name, TRUE, FALSE, DefaultStatus, TRUE, TRUE,
             ExecuteResponse(DefaultStatus, FALSE, r)) : r \in MaterializableResults}
LocalStores == {{}, {<<"foo">>}, {<<"foo">>, <<"bar">>}}

InitMaterialize ==
  /\ NotStarted
  /\ local_store \in LocalStores
  /\ multi_request = [key \in {<<"None", "None">>} |-> EchoRequest(1500)]
  /\ platform = "Linux"
  /\ host_platform = "Linux"
  /\ metadata = RunnerMetadata

ExecuteMaterializable ==
  ExecuteReturnsOf({StreamReply("Message", op, OtherError) :
                      op \in MaterializableOperations(OperationNames[Len(executes)])})

NextMaterialize ==
  \/ RunStart
  \/ StoreSucceeds
  \/ SyncSucceeds
  \/ ExecuteMaterializable
  \/ Classify

SpecMaterialize == InitMaterialize /\ [][NextMaterialize]_vars

(***************************************************************************)
(* The output tree of a response.  As for the materializing, with an        *)
(* ActionResult that reports output files and output directories: at the    *)
(* root, one or two levels down, two directories side by side or at one     *)
(* path, a file whose name a reported tree has too, digests that do not     *)
(* convert; the store holds neither, one or both of the reported trees.     *)
(***************************************************************************)
TreeDigest(tree) ==
  ProtoDigest(DigestOfBytes(DirectoryBytes(tree)).fingerprint,
              DigestOfBytes(DirectoryBytes(tree)).size)
PetsCats == <<"pets", "/", "cats">>
PetsDogs == <<"pets", "/", "dogs">>
OutputDirectoryLists ==
  {<<>>,
   <<OutputDirectory(PetsCats, TreeDigest(ContainingRoland))>>,
   <<OutputDirectory(<<>>, TreeDigest(ContainingRoland))>>,
   <<OutputDirectory(PetsCats, TreeDigest(ContainingRoland)),
     OutputDirectory(PetsDogs, TreeDigest(ContainingRobin))>>,
   <<OutputDirectory(<<"cats">>, TreeDigest(ContainingRoland)),
     OutputDirectory(<<>>, TreeDigest(ContainingRobin))>>,
   <<OutputDirectory(PetsCats, TreeDigest(ContainingRoland)),
     OutputDirectory(PetsCats, TreeDigest(ContainingRobin))>>,
   <<OutputDirectory(PetsCats, ProtoDigest("xyz", 3))>>}
OutputFileLists ==
  {<<>>,
   <<OutputFile(<<"treats">>, ProtoDigest("f2", 3), FALSE)>>,
   <<OutputFile(<<"pets", "/", "treats">>, ProtoDigest("f2", 3), TRUE)>>,
   <<OutputFile(<<"roland">>, ProtoDigest("f2", 3), FALSE)>>,
   <<OutputFile(<<"treats">>, ProtoDigest("xyz", 3), FALSE)>>}
ResultsWithOutputs ==
  {[ActionResult(0, <<"foo">>, FALSE, DefaultMetadata)
      EXCEPT !.output_files = files, !.output_directories = directories] :
     files \in OutputFileLists, directories \in OutputDirectoryLists}
OperationsWithOutputs(name) ==
  {Operation(name, TRUE, FALSE, DefaultStatus, TRUE, TRUE,
             ExecuteResponse(DefaultStatus, FALSE, r)) : r \in ResultsWithOutputs}
StoresOfTrees ==
  {{}, {DirectoryBytes(ContainingRoland)},
   {DirectoryBytes(ContainingRoland), DirectoryBytes(ContainingRobin)}}

InitOutputs ==
  /\ NotStarted
  /\ local_store \in StoresOfTrees
  /\ multi_request = [key \in {<<"None", "None">>} |-> EchoRequest(1500)]
  /\ platform = "Linux"
  /\ host_platform = "Linux"
  /\ metadata = RunnerMetadata

ExecuteWithOutputs ==
  ExecuteReturnsOf({StreamReply("Message", op, OtherError) :
                      op \in OperationsWithOutputs(OperationNames[Len(executes)])})

NextOutputs ==
  \/ RunStart
  \/ StoreSucceeds
  \/ SyncSucceeds
  \/ ExecuteWithOutputs
  \/ Classify

SpecOutputs == InitOutputs /\ [][NextOutputs]_vars

(***************************************************************************)
(* The choice of the compatible request: a runner of any platform on a     *)
(* Darwin or Linux host is called with a request that has an entry under   *)
(* any set of platform pairs, each entry a request of its own.             *)
(***************************************************************************)
\* What Platform::current_platform() can return.
HostPlatforms == {"Darwin", "Linux"}
PlatformPairs == Platforms \X Platforms
\* The request stored under a pair: its description tells the entries apart.
RequestFor(pair) == [EchoRequest(1500) EXCEPT !.description = ToString(pair)]
MultiPlatformRequests ==
  {[pair \in pairs |-> RequestFor(pair)] : pairs \in SUBSET PlatformPairs}

InitCompatible ==
  /\ NotStarted
  /\ local_store = {}
  /\ multi_request \in MultiPlatformRequests
  /\ platform \in Platforms
  /\ host_platform \in HostPlatforms
  /\ metadata = RunnerMetadata

SpecCompatible == InitCompatible /\ [][RunStart]_vars

(***************************************************************************)
(* The construction of the request: a runner with any metadata is called   *)
(* with a request for every platform whose arguments, environment, output  *)
(* paths and JDK hint vary.                                                *)
(***************************************************************************)
Argvs == {<<"/bin/echo", "yo">>, <<"yo", "/bin/echo">>, <<"yo", "yo", "/bin/echo">>}
Envs ==
  {[name \in names |-> "value"] : names \in SUBSET {"HOME", "SOME"}}
  \cup {[name \in {"HOME", CACHE_KEY_GEN_VERSION_ENV_VAR_NAME} |-> "value"]}
OutputFiles ==
  {{}, {"a-b"}, {"a/b", "a-b"}, {"path/to/file", "a-b", "a/b"}, {"a/b", NonUtf8Path}}
OutputDirectories == {{}, {"a/b", "a-b", "other/file"}, {NonUtf8Path}}
MakeRequests ==
  {ExecuteProcessRequest(argv, env, Digest("f1", 3), files, directories, 1500, "echo-a-foo",
                         jdk_home, target) :
     argv \in Argvs, env \in Envs, files \in OutputFiles, directories \in OutputDirectories,
     jdk_home \in {None, Some("/tmp")}, target \in {"none", "linux"}}
PlatformProperties ==
  {<<>>, << <<"FIRST", "foo">> >>,
   << <<"Multi", "uno">>, <<"last", "bar">>, <<"Multi", "dos">> >>}
RunnerMetadatas ==
  {ExecuteProcessRequestMetadata(instance_name, version, properties) :
     instance_name \in {None, Some("dark-tower")}, version \in {None, Some("meep")},
     properties \in PlatformProperties}

InitMake ==
  /\ NotStarted
  /\ local_store = {}
  /\ multi_request \in {[key \in {<<"None", "None">>} |-> r] : r \in MakeRequests}
  /\ platform = "Linux"
  /\ host_platform = "Linux"
  /\ metadata \in RunnerMetadatas

SpecMake == InitMake /\ [][RunStart]_vars

(***************************************************************************)
(* Properties of run.                                                      *)
(***************************************************************************)
\* The CancelOperation requests made for the operation of the n-th Execute.
CancelsOf(n) == {i \in DOMAIN cancel_requests : cancel_requests[i].execute = n}
\* run returned the result it synthesizes when the timeout is exceeded.
ReturnedTimeout ==
  pc = "Returned" /\ result.tag = "Ok" /\ classified.kind = "NotFinished"
\* run returned the error it makes of a failed backoff timer.
ReturnedTimerFailure ==
  /\ pc = "Returned"
  /\ result.tag = "Err"
  /\ result.error[1] = "Future-Delay errored at operation result polling for "
\* The step in which the loop body classifies the operation it holds.
ClassifyStep == pc = "Extracting" /\ pc' \notin {"Extracting", "Dropped"}

\* C1: once the operation is classified Done or Fatal, run has returned, the
\* token was released disarmed and no CancelOperation request names that
\* operation, whatever the number of polls before the classification.
C1_NoCancelAfterTerminal ==
  classified.kind \in {"Done", "Fatal"} =>
    /\ pc = "Returned"
    /\ maybe_cancel_remote_exec_token = None
    /\ CancelsOf(Len(executes)) = {}
    /\ operation.tag = "Operation" =>
         \A i \in DOMAIN cancel_requests :
           cancel_requests[i].name # operation.operation.name
\* A Done classification after two polls of an Operation.
C1_Witness ==
  /\ classified.kind = "Done"
  /\ operation.tag = "Operation"
  /\ getops_in_attempt >= 2

C5_OnlyTimeout == pc = "Returned" => ReturnedTimeout
\* C5, amended: against a server that is never done, run eventually returns,
\* and what it returns is the timeout result or the error of a failed backoff
\* timer.
C5_TimeoutOrTimerFailure ==
  /\ <>(pc = "Returned")
  /\ [](pc = "Returned" => (ReturnedTimeout \/ ReturnedTimerFailure))
\* The timeout result after the backoff reached its cap.
C5_Witness == ReturnedTimeout /\ get_operations >= 11

\* C6: a MissingDigests classification is not returned: the loop goes on to
\* upload.  The upload step gives exactly the classified digests to
\* ensure_remote_has_recursive and then sends the ExecuteRequest of the first
\* Execute again, or it returns an error without another Execute; the loop is
\* entered again with iteration counter 0.
C6_MissingDigestsRecovery ==
  [][/\ (ClassifyStep /\ classified'.kind = "MissingDigests") =>
          /\ pc' = "Uploading"
          /\ result' = NoResult
          /\ executes' = executes
          /\ uploads' = uploads
     /\ (pc = "Uploading" /\ pc' # "Dropped") =>
          \/ /\ pc' = "Executing"
             /\ uploads' = Append(uploads, classified.missing_digests)
             /\ executes' = Append(executes, executes[1])
          \/ /\ pc' = "Returned"
             /\ result'.tag = "Err"
             /\ executes' = executes
             /\ uploads' \in {uploads, Append(uploads, classified.missing_digests)}
     /\ (pc = "Executing" /\ pc' = "Extracting") => iter_num' = 0]_vars
\* The loop entered again after a recovery that followed a poll.
C6_Witness ==
  /\ pc = "Extracting"
  /\ Len(executes) >= 2
  /\ Len(uploads) >= 2
  /\ uploads[2] = <<Digest("f1", 3)>>
  /\ get_operations >= 1
  /\ getops_in_attempt = 0
  /\ iter_num = 0

\* C7: a GetOperation that fails with Cancelled leaves the loop holding a
\* not-done Operation of the requested name, the token armed and the
\* iteration counter one higher, and the next classification is NotFinished
\* with that name; any other GetOperation failure makes run return an error.
C7_CancelledRecovered ==
  [][/\ (pc = "GetOperation" /\ pc' # "GetOperation" /\ getop_reply'.kind = "Error") =>
          IF getop_reply'.error.kind = "RpcFailure" /\ getop_reply'.error.status = "CANCELLED"
            THEN /\ pc' = "Extracting"
                 /\ operation' = OperationOrStatus_Operation(
                      Operation(operation_request, FALSE, FALSE, DefaultStatus, FALSE,
                                FALSE, DefaultResponse))
                 /\ iter_num' = iter_num + 1
                 /\ IsSome(maybe_cancel_remote_exec_token')
                 /\ Unwrap(maybe_cancel_remote_exec_token').send_cancellation_on_drop
                 /\ maybe_cancel_remote_exec_token' = maybe_cancel_remote_exec_token
                 /\ cancel_requests' = cancel_requests
            ELSE /\ pc' = "Returned"
                 /\ result'.tag = "Err"
     /\ (ClassifyStep /\ getop_reply.kind = "Error") =>
          classified' = NotFinished(operation_request)]_vars
\* The loop after the second poll, which failed with Cancelled.
C7_Witness ==
  /\ pc = "Extracting"
  /\ getop_reply.kind = "Error"
  /\ iter_num = 2
  /\ ~operation.operation.done

C9_GapOfRun ==
  [][(pc = "Sleeping" /\ pc' = "GetOperation" /\ get_operations >= 1) =>
       now' - last_getop_at >=
         (IF 500 * get_operations <= 5000 THEN 500 * get_operations ELSE 5000)]_vars
\* C9, amended: with N the GetOperation RPCs since the last Execute, the
\* (N+1)-th is issued no sooner than min(5000, 500 * N) after the N-th; the
\* first one after a recovery is issued no sooner than 500 after the last one
\* before it.
C9_GapOfAttempt ==
  [][(pc = "Sleeping" /\ pc' = "GetOperation" /\ get_operations >= 1) =>
       LET N == getops_in_attempt IN
       now' - last_getop_at >=
         (IF N = 0 THEN 500 ELSE IF 500 * N <= 5000 THEN 500 * N ELSE 5000)]_vars
\* The second GetOperation of an attempt that follows a recovery.
C9_Witness ==
  /\ pc = "GetOperation"
  /\ Len(executes) >= 2
  /\ getops_in_attempt = 2
  /\ get_operations > getops_in_attempt

\* C10: the classifier checks an Operation in this order: not done gives
\* NotFinished with its name whatever else it carries; else an error gives
\* Fatal with the formatted error even with a response; else no response gives
\* Fatal "Operation finished but no response supplied"; else a response that
\* does not parse gives Fatal.
C10_CheckOrder ==
  [][(ClassifyStep /\ operation.tag = "Operation") =>
       LET op == operation.operation IN
       IF ~op.done THEN classified' = NotFinished(op.name)
       ELSE IF op.has_error
         THEN classified' = Fatal(<<op.error.code, ": ", op.error.message>>)
       ELSE IF ~op.has_response
         THEN classified' = Fatal(<<"Operation finished but no response supplied">>)
       ELSE IF ~op.response_parses THEN classified'.kind = "Fatal"
       ELSE classified'.kind \in {"Done", "Fatal", "MissingDigests", "Panic"}]_vars
\* An Operation that is not done and carries an error and a response.
C10_Witness ==
  /\ classified.kind = "NotFinished"
  /\ operation.tag = "Operation"
  /\ operation.operation.has_error
  /\ operation.operation.has_response
  /\ classified.name = operation.operation.name

(***************************************************************************)
(* Properties of the classification.                                       *)
(***************************************************************************)
\* The status the final match of extract_execute_response looks at, if the
\* classification of oos gets that far: Option of Status.
MatchedStatus(oos) ==
  IF oos.tag = "Status" THEN Some(oos.status)
  ELSE IF ReachesResponse(oos) /\ oos.operation.response.status.code # "OK"
    THEN Some(oos.operation.response.status)
  ELSE None
\* A violation of type MISSING whose subject is blobs/<hex fingerprint>/<size>.
IsMissingBlob(violation) ==
  /\ violation.type = "MISSING"
  /\ \E fp \in HexFingerprints, size \in SizeStrings :
       /\ IsSome(ParseUsize(size))
       /\ violation.subject = MissingSubject(fp, size)
\* The digest such a violation names.
BlobDigest(violation) ==
  Digest(violation.subject[3], Unwrap(ParseUsize(violation.subject[5])))
\* One details entry of the PreconditionFailure type with a non-empty list of
\* violations that all name a missing blob.
NamesMissingBlobs(status) ==
  /\ Len(status.details) = 1
  /\ status.details[1].type_url = PreconditionFailureTypeUrl
  /\ status.details[1].violations # <<>>
  /\ \A i \in DOMAIN status.details[1].violations :
       IsMissingBlob(status.details[1].violations[i])

\* C11: a FAILED_PRECONDITION status is classified MissingDigests exactly when
\* it has one details entry of the PreconditionFailure type whose violation
\* list is non-empty and holds only MISSING violations with a subject
\* blobs/<hex fingerprint>/<size>; the digests are then those of the
\* violations, one each and in their order; any other FAILED_PRECONDITION
\* status is classified Fatal.
C11_MissingDigestsIff ==
  [][(ClassifyStep /\ IsSome(MatchedStatus(operation))
                   /\ Unwrap(MatchedStatus(operation)).code = "FAILED_PRECONDITION")
     => LET status == Unwrap(MatchedStatus(operation))
            violations == status.details[1].violations
        IN IF NamesMissingBlobs(status)
             THEN /\ classified'.kind = "MissingDigests"
                  /\ classified'.missing_digests =
                       [i \in 1..Len(violations) |-> BlobDigest(violations[i])]
             ELSE classified'.kind = "Fatal"]_vars
\* Two violations naming different blobs were classified, the second blob of
\* the universe first.
C11_Witness ==
  /\ pc = "Uploading"
  /\ classified.kind = "MissingDigests"
  /\ classified.missing_digests = <<Digest("f2", 7), Digest("f1", 3)>>
  /\ IsSome(MatchedStatus(operation))
  /\ Unwrap(MatchedStatus(operation)).code = "FAILED_PRECONDITION"

\* Whether a message built by format! has the given string as one of its pieces.
Contains(message, piece) == \E i \in DOMAIN message : message[i] = piece

\* C12: a status whose code is neither OK nor FAILED_PRECONDITION, whether it
\* is the status of the ExecuteResponse or an RPC-level status, is classified
\* Fatal with a message that contains the code and the status message; run
\* returns that message as its error, and a run that has returned issues no
\* further GetOperation or Execute.
C12_OtherCodesFatal ==
  [][/\ (ClassifyStep /\ IsSome(MatchedStatus(operation))
                      /\ Unwrap(MatchedStatus(operation)).code \notin {"OK", "FAILED_PRECONDITION"})
        => LET status == Unwrap(MatchedStatus(operation)) IN
           /\ classified'.kind = "Fatal"
           /\ Contains(classified'.message, status.code)
           /\ Contains(classified'.message, status.message)
           /\ pc' = "Returned"
           /\ result' = Err(classified'.message)
           /\ get_operations' = get_operations
           /\ executes' = executes
     /\ pc = "Returned" => (get_operations' = get_operations /\ executes' = executes)]_vars
\* The Execute RPC failed with a status proto of code CANCELLED and run
\* returned the error made of it.
C12_Witness ==
  /\ pc = "Returned"
  /\ operation = OperationOrStatus_Status(Status("CANCELLED", "Something went wrong", <<>>))
  /\ result = Err(<<"Error from remote execution: ", "CANCELLED", ": ", "Something went wrong">>)
  /\ get_operations = 0

\* The workunit names of the four spans, in the order the code takes them.
WorkunitNames ==
  <<"remote execution action scheduling", "remote execution worker input fetching",
    "remote execution worker command executing", "remote execution worker output uploading">>
\* A done operation whose response decodes, has status OK and has metadata.
SuccessWithMetadata(oos) ==
  /\ ReachesResponse(oos)
  /\ oos.operation.response.status.code = "OK"
  /\ oos.operation.response.result.has_execution_metadata
\* A pair of timestamps that convert, the end not before the start.
SpanOk(span) == span.well_formed /\ span.start <= span.end
\* The names under which the workunits of the spans that are in order go.
NamesOfSpansInOrder(m) ==
  (IF SpanOk(m.queue) THEN <<WorkunitNames[1]>> ELSE <<>>)
  \o (IF SpanOk(m.input_fetch) THEN <<WorkunitNames[2]>> ELSE <<>>)
  \o (IF SpanOk(m.execution) THEN <<WorkunitNames[3]>> ELSE <<>>)
  \o (IF SpanOk(m.output_upload) THEN <<WorkunitNames[4]>> ELSE <<>>)

\* C13 as stated: for a done operation whose response has status OK and
\* execution metadata, the classification adds exactly the four workunits when
\* cached_result is false and none when it is true.
C13_FourWorkunits ==
  [][(ClassifyStep /\ SuccessWithMetadata(operation))
     => workunits' = workunits \o (IF operation.operation.response.cached_result
                                     THEN <<>> ELSE WorkunitNames)]_vars
\* C13, amended: the classification adds no workunit when cached_result is
\* true; when it is false it adds one workunit for each of the four spans whose
\* timestamps convert and whose end is not before its start, in the order
\* scheduling, input fetching, command executing, output uploading, which is
\* exactly the four when every span is in order.
C13_WorkunitPerSpanInOrder ==
  [][(ClassifyStep /\ SuccessWithMetadata(operation))
     => LET response == operation.operation.response
            m == response.result.metadata
        IN /\ workunits' = workunits \o (IF response.cached_result THEN <<>>
                                         ELSE NamesOfSpansInOrder(m))
           /\ (~response.cached_result /\ SpanOk(m.queue) /\ SpanOk(m.input_fetch)
                 /\ SpanOk(m.execution) /\ SpanOk(m.output_upload))
              => workunits' = workunits \o WorkunitNames]_vars
\* A response that is not cached and whose input fetch ends before it starts
\* was classified: three workunits were added.
C13_Witness ==
  /\ pc = "Returned"
  /\ result.tag = "Ok"
  /\ SuccessWithMetadata(operation)
  /\ ~operation.operation.response.cached_result
  /\ operation.operation.response.result.metadata =
       ExecutedActionMetadata(Span(0, 100), Span(100, 0), Span(0, 100), Span(0, 100))
  /\ workunits = <<WorkunitNames[1], WorkunitNames[3], WorkunitNames[4]>>

(***************************************************************************)
(* Properties of extract_compatible_request.                               *)
(***************************************************************************)
\* C14: extract_compatible_request returns the request stored under the first
\* of (None, None), (runner platform, None), (runner platform, host platform)
\* that is a key of the request: an earlier key wins over a later one, an entry
\* under any other key is never returned, and nothing is returned when none of
\* the three is a key.
C14_FirstCompatible ==
  pc # "Start" =>
    LET first == <<"None", "None">>
        second == <<platform, "None">>
        third == <<platform, host_platform>>
        keys == DOMAIN multi_request
    IN /\ first \in keys => compatible_request = Some(multi_request[first])
       /\ (first \notin keys /\ second \in keys)
            => compatible_request = Some(multi_request[second])
       /\ (first \notin keys /\ second \notin keys /\ third \in keys)
            => compatible_request = Some(multi_request[third])
       /\ (first \notin keys /\ second \notin keys /\ third \notin keys)
            => compatible_request = None
       /\ \A pair \in keys \ {first, second, third} :
            compatible_request # Some(multi_request[pair])
\* A Linux runner on a Darwin host got the entry of (Linux, None) from a
\* request that also has entries under (Linux, Darwin) and under other pairs.
C14_Witness ==
  /\ pc = "StoringLocally"
  /\ platform = "Linux"
  /\ host_platform = "Darwin"
  /\ DOMAIN multi_request =
       {<<"Linux", "None">>, <<"Linux", "Darwin">>, <<"Darwin", "Darwin">>, <<"None", "Linux">>}
  /\ compatible_request = Some(RequestFor(<<"Linux", "None">>))
  /\ req = RequestFor(<<"Linux", "None">>)

(***************************************************************************)
(* Properties of make_execute_request.                                     *)
(***************************************************************************)
\* A request make_execute_request has to refuse.
Refused(r) ==
  \/ CACHE_KEY_GEN_VERSION_ENV_VAR_NAME \in DOMAIN r.env
  \/ NonUtf8Path \in r.output_files
  \/ NonUtf8Path \in r.output_directories

\* C15: when the environment of the request names PANTS_CACHE_KEY_GEN_VERSION
\* or one of its output files or output directories is not valid UTF-8,
\* make_execute_request returns an error and run fails with it at once: it
\* never waits on the local store, uploads nothing and issues no Execute,
\* GetOperation or CancelOperation.
C15_RefusedBeforeAnyEffect ==
  (pc # "Start" /\ IsSome(compatible_request) /\ Refused(Unwrap(compatible_request))) =>
    /\ ~execute_request_result.ok
    /\ pc = "Returned"
    /\ result = Err(execute_request_result.message)
    /\ now = 0
    /\ uploads = <<>>
    /\ executes = <<>>
    /\ get_operations = 0
    /\ cancel_requests = <<>>
\* run returned the error about an output directory that is not UTF-8.
C15_Witness ==
  /\ pc = "Returned"
  /\ NonUtf8Path \in req.output_directories
  /\ result = Err(<<"Non-UTF8 output directory path: ", NonUtf8Path>>)

\* run has called make_execute_request and got a triple.
Made == pc # "Start" /\ IsSome(compatible_request) /\ execute_request_result.ok
\* The names of a list of environment variables.
NamesOf(variables) == [i \in DOMAIN variables |-> variables[i].name]
\* A list of strings in ascending order.
Ascending(strings) ==
  \A i, j \in DOMAIN strings : i < j => StringRank(strings[i]) <= StringRank(strings[j])
\* The reserved entry of a version.
VersionEntry(version) ==
  [name |-> CACHE_KEY_GEN_VERSION_ENV_VAR_NAME, value |-> version]

\* C16 as stated: the environment variables of the Command are sorted by name,
\* and one of them is named PANTS_CACHE_KEY_GEN_VERSION exactly when the
\* metadata has a cache-key-gen version.
C16_EnvSorted ==
  Made =>
    LET names == NamesOf(execute_request_result.command.environment_variables) IN
    /\ Ascending(names)
    /\ Contains(names, CACHE_KEY_GEN_VERSION_ENV_VAR_NAME)
         <=> IsSome(metadata.cache_key_gen_version)
\* C16, amended: the environment variables of the Command are the entries of
\* the request, each once and sorted by name, followed, exactly when the
\* metadata has a cache-key-gen version, by one entry named
\* PANTS_CACHE_KEY_GEN_VERSION that holds the version; no other entry has that
\* name.
C16_EnvSortedThenVersion ==
  Made =>
    LET variables == execute_request_result.command.environment_variables
        given == Cardinality(DOMAIN req.env)
        own == SubSeq(variables, 1, given)
    IN /\ Len(variables) = given + (IF IsSome(metadata.cache_key_gen_version) THEN 1 ELSE 0)
       /\ Ascending(NamesOf(own))
       /\ {own[i].name : i \in DOMAIN own} = DOMAIN req.env
       /\ \A i \in DOMAIN own : own[i].value = req.env[own[i].name]
       /\ ~Contains(NamesOf(own), CACHE_KEY_GEN_VERSION_ENV_VAR_NAME)
       /\ IsSome(metadata.cache_key_gen_version)
            => variables[given + 1] = VersionEntry(Unwrap(metadata.cache_key_gen_version))
\* A request with HOME and SOME in its environment was built with a version:
\* the reserved entry is last, after SOME.
C16_Witness ==
  /\ Made
  /\ NamesOf(execute_request_result.command.environment_variables)
       = <<"HOME", "SOME", CACHE_KEY_GEN_VERSION_ENV_VAR_NAME>>
  /\ metadata.cache_key_gen_version = Some("meep")

\* C17: the platform properties of the Command are the metadata's properties
\* in their order, duplicate keys kept, then (JDK_SYMLINK, .jdk) exactly when
\* jdk_home is set, then (target_platform, <tag>): the list is one or two
\* longer than the metadata's and its last entry is always target_platform.
C17_PlatformProperties ==
  Made =>
    LET properties == execute_request_result.command.platform
        given == metadata.platform_properties
        jdk == IF IsSome(req.jdk_home) THEN 1 ELSE 0
    IN /\ Len(properties) = Len(given) + jdk + 1
       /\ Len(properties) \in {Len(given) + 1, Len(given) + 2}
       /\ \A i \in DOMAIN given : properties[i] = given[i]
       /\ jdk = 1 => properties[Len(given) + 1] = <<"JDK_SYMLINK", ".jdk">>
       /\ properties[Len(properties)] = <<"target_platform", req.target_platform>>
\* A request with jdk_home was built with metadata that has the key Multi
\* twice: five properties, both Multi entries kept.
C17_Witness ==
  /\ Made
  /\ IsSome(req.jdk_home)
  /\ execute_request_result.command.platform =
       << <<"Multi", "uno">>, <<"last", "bar">>, <<"Multi", "dos">>,
          <<"JDK_SYMLINK", ".jdk">>, <<"target_platform", "linux">> >>

\* C18: the output_files and the output_directories of the Command are each
\* sorted as strings and hold exactly the paths of the request, each once,
\* however the request orders them; the arguments are the request's, in its
\* order.
C18_OutputsSorted ==
  Made =>
    LET command == execute_request_result.command
        SortedAs(list, paths) ==
          /\ Ascending(list)
          /\ {list[i] : i \in DOMAIN list} = paths
          /\ Len(list) = Cardinality(paths)
    IN /\ SortedAs(command.output_files, req.output_files)
       /\ SortedAs(command.output_directories, req.output_directories)
       /\ command.arguments = req.argv
\* A request whose path set iterates a/b before a-b was built: the Command
\* lists a-b first; its arguments are not in ascending order.
C18_Witness ==
  /\ Made
  /\ BTreeSetIter(req.output_files) = <<"a/b", "a-b", "path/to/file">>
  /\ execute_request_result.command.output_files = <<"a-b", "a/b", "path/to/file">>
  /\ execute_request_result.command.output_directories = <<"a-b", "a/b", "other/file">>
  /\ execute_request_result.command.arguments = <<"yo", "yo", "/bin/echo">>

\* C20: in the triple make_execute_request returns, the Action's command
\* digest is the digest of the Command, its input root digest is the digest of
\* the request's input files, the ExecuteRequest's action digest is the digest
\* of the Action, and the ExecuteRequest has an instance name exactly when the
\* metadata has one, namely that one; the same request built with another
\* instance name, or with none, gives the same Command and Action digests.
C20_DigestsAndInstanceName ==
  Made =>
    LET made == execute_request_result IN
    /\ made.action.command_digest = digest(made.command)
    /\ made.action.input_root_digest = req.input_files
    /\ made.execute_request.action_digest = digest(made.action)
    /\ IsSome(made.execute_request.instance_name) <=> IsSome(metadata.instance_name)
    /\ made.execute_request.instance_name = metadata.instance_name
    /\ \A instance_name \in {None, Some("dark-tower"), Some("other-tower")} :
         LET other == make_execute_request(req, [metadata EXCEPT !.instance_name = instance_name])
         IN /\ other.ok
            /\ digest(other.command) = digest(made.command)
            /\ digest(other.action) = digest(made.action)
\* A request was built for the instance dark-tower: the ExecuteRequest names
\* the instance and the digest of the Action, which is not that of the Command.
C20_Witness ==
  /\ Made
  /\ metadata.instance_name = Some("dark-tower")
  /\ execute_request_result.execute_request.instance_name = Some("dark-tower")
  /\ execute_request_result.execute_request.action_digest = digest(execute_request_result.action)
  /\ digest(execute_request_result.action) # digest(execute_request_result.command)
  /\ execute_request = execute_request_result.execute_request

(***************************************************************************)
(* Properties of the loop: the classifier's last match, the history and    *)
(* the cancel token across recoveries and failures.                        *)
(***************************************************************************)
\* C30: the OK arm of the match on the status code, an unreachable!(), is never
\* entered: not for a done Operation whose response has status OK and not for
\* a Status that a failed Execute RPC carries, whatever its code.
C30_OkArmNeverEntered == classified.kind # "Panic"

\* C26: when an operation is classified MissingDigests its cancel token is
\* disarmed before it is released: the recovery sends no CancelOperation for
\* the operation whose response reported the missing blobs.
C26_RecoveryDisarms ==
  [][(ClassifyStep /\ classified'.kind = "MissingDigests") =>
       /\ cancel_requests' = cancel_requests
       /\ IsSome(last_operation) =>
            \A i \in DOMAIN cancel_requests' :
              cancel_requests'[i].execute # Unwrap(last_operation).execute]_vars

\* C27: when run returns an error after an operation name was received,
\* whatever the cause, the token is disarmed and no CancelOperation is sent:
\* the returning step adds no request, and none names the operation of the
\* last Execute.
C27_ErrorDisarms ==
  [][(pc # "Returned" /\ pc' = "Returned" /\ result'.tag = "Err" /\ IsSome(last_operation)) =>
       /\ cancel_requests' = cancel_requests
       /\ \A i \in DOMAIN cancel_requests' :
            cancel_requests'[i].execute # Unwrap(last_operation).execute]_vars

\* C23: a MissingDigests recovery leaves the history with the attempts it had
\* before the operation was classified, in order, followed by the current
\* attempt, and with a fresh default current attempt.
C23_RecoveryKeepsAttempts ==
  [][(ClassifyStep /\ classified'.kind = "MissingDigests") =>
       /\ history'.attempts =
            Append(history.attempts, HistoryAfterExtract(operation, history).current_attempt)
       /\ history'.current_attempt = ExecutionStats_default]_vars

\* C29: a run that returns a Done result or the timeout result has in its
\* execution_attempts one entry for each Execute RPC it issued: k + 1 entries
\* after k MissingDigests recoveries.
C29_AttemptPerExecute ==
  (pc = "Returned" /\ result.tag = "Ok") =>
    Len(result.value.execution_attempts) = Len(executes)


(* Properties of the clock. *)

\* C28: the timeout budget runs from one start instant, the clock when the
\* first Execute response arrives: the time the local store and the first
\* upload took is before it, no later step moves it, and a NotFinished
\* classification ends the run with the timeout result exactly when the clock
\* is more than the timeout past it, whatever the time went into: polls,
\* uploads of missing digests or re-issued Execute RPCs.
FirstExecuteResponse == pc = "Executing" /\ pc' = "Extracting" /\ Len(executes) = 1

IssuesRpc == Len(executes') > Len(executes) \/ get_operations' > get_operations

C24_OneRpcInFlight ==
  [][/\ in_flight \in {0, 1}
     /\ in_flight' \in {0, 1}
     /\ IssuesRpc =>
          /\ in_flight = 0
          /\ in_flight' = 1
          /\ Len(executes') + get_operations' = Len(executes) + get_operations + 1
          /\ executes # <<>> =>
               \/ get_operations' > get_operations /\ pc = "Sleeping"
                    /\ classified.kind = "NotFinished"
               \/ Len(executes') > Len(executes) /\ pc = "Uploading"
                    /\ classified.kind = "MissingDigests"]_vars

\* The second Execute is open while the CancelOperation for the operation of
\* the first has been dispatched.
C24_Witness ==
  /\ pc = "Executing"
  /\ Len(executes) = 2
  /\ in_flight = 1
  /\ cancel_requests # <<>>

(* Properties of the materialized result. *)

\* The bytes a store that holds blobs has under a wire digest: none when the
\* hash is no fingerprint or no blob has the digest.
HeldUnder(blobs, proto_digest) ==
  {bytes \in blobs : /\ proto_digest.hash \in HexFingerprints
                     /\ DigestOfBytes(bytes).fingerprint = proto_digest.hash
                     /\ DigestOfBytes(bytes).size = proto_digest.size_bytes}

\* How one stream of the response must come out: by digest, Fatal when the
\* store has no blob under it and otherwise, in a Done result, the blob; inline,
\* in a Done result, the inline bytes, which the store holds afterwards.
StreamMaterialized(form_digest, raw, blobs, outcome, returned, blobs_after) ==
  IF IsSome(form_digest)
    THEN /\ HeldUnder(blobs, Unwrap(form_digest)) = {} => outcome.kind = "Fatal"
         /\ outcome.kind = "Done" => HeldUnder(blobs, Unwrap(form_digest)) = {returned}
    ELSE outcome.kind = "Done" =>
           /\ returned = raw
           /\ raw \in blobs_after
           /\ \E bytes \in blobs_after : DigestOfBytes(bytes) = DigestOfBytes(raw)

\* C21: when a response with status OK is materialized, stdout and stderr given
\* by digest are loaded from the store, and a digest the store has no blob
\* under makes the classification Fatal; stdout and stderr given inline are
\* returned as they are and, once run has returned Ok, the store holds them
\* under their digests.
C21_StdioMaterialized ==
  [][(ClassifyStep /\ ExtractCanSuspend(operation)) =>
       LET r == operation.operation.response.result IN
       /\ classified'.kind \in {"Done", "Fatal"}
       /\ classified'.kind = "Done" =>
            pc' = "Returned" /\ result' = Ok(classified'.result)
       /\ StreamMaterialized(r.stdout_digest, r.stdout_raw, local_store, classified',
                             classified'.result.stdout, local_store')
       /\ StreamMaterialized(r.stderr_digest, r.stderr_raw, local_store, classified',
                             classified'.result.stderr, local_store')]_vars

\* run returned Ok for a response with stdout by digest and stderr inline: the
\* stdout is the blob the store had, the stderr is stored.
C21_Witness ==
  /\ pc = "Returned"
  /\ result.tag = "Ok"
  /\ operation.tag = "Operation"
  /\ operation.operation.response.result.stdout_digest = Some(ProtoDigest("f1", 3))
  /\ operation.operation.response.result.stdout_raw = <<"bar">>
  /\ ~IsSome(operation.operation.response.result.stderr_digest)
  /\ operation.operation.response.result.stderr_raw = <<"bar">>
  /\ result.value.stdout = <<"foo">>
  /\ result.value.stderr = <<"bar">>
  /\ <<"bar">> \in local_store

(* Properties of the output tree. *)

\* The files of the tree under a digest, each with the names on its path, read
\* from the Directories that blobs holds.
RECURSIVE FilesUnder(_, _)
FilesUnder(blobs, root) ==
  IF ~IsSome(load_directory(blobs, root)) THEN {}
  ELSE LET directory == Unwrap(load_directory(blobs, root)) IN
       {<< <<directory.files[i].name>>, directory.files[i].digest,
           directory.files[i].is_executable >> : i \in DOMAIN directory.files}
       \cup UNION {{<< <<directory.directories[i].name>> \o file[1], file[2], file[3] >> :
                      file \in FilesUnder(blobs, directory.directories[i].digest)} :
                   i \in DOMAIN directory.directories}

\* The names on a path, from the first to the last.
Components(path) == IF path = <<>> THEN <<>> ELSE split(path)

\* The files the output tree of an ActionResult is to have: every reported
\* file at its path, and under the path of every reported directory the files
\* of its tree.
ExpectedFiles(action_result, blobs) ==
  {<< Components(action_result.output_files[i].path),
      Digest(action_result.output_files[i].digest.hash,
             action_result.output_files[i].digest.size_bytes),
      action_result.output_files[i].is_executable >> :
     i \in DOMAIN action_result.output_files}
  \cup UNION {{<< Components(action_result.output_directories[i].path) \o file[1],
                  file[2], file[3] >> :
                 file \in FilesUnder(blobs,
                            Digest(action_result.output_directories[i].tree_digest.hash,
                                   action_result.output_directories[i].tree_digest.size_bytes))} :
              i \in DOMAIN action_result.output_directories}

\* The Directory that wraps a tree for the k-th name of a path: it has one
\* entry, that name, for the tree itself under the last name and for the next
\* wrapper under any other.
RECURSIVE Wrapper(_, _, _)
Wrapper(names, k, tree_digest) ==
  Directory(<<>>, <<DirectoryNode(names[k],
                      IF k = Len(names) THEN tree_digest
                      ELSE DigestOfBytes(DirectoryBytes(Wrapper(names, k + 1, tree_digest))))>>)

\* C25: the output tree of a materialized response has every reported file at
\* its path and the files of every reported directory's tree under that
\* directory's path, and nothing else; for a directory reported at a path of n
\* names the store holds afterwards the n single-entry Directories that wrap
\* its tree from the last name to the first; and a directory reported alone at
\* the empty path gives its own tree digest.
C25_OutputTree ==
  [][(ClassifyStep /\ ExtractCanSuspend(operation) /\ classified'.kind = "Done") =>
       LET r == operation.operation.response.result
           tree == classified'.result.output_directory
       IN
       /\ FilesUnder(local_store', tree) = ExpectedFiles(r, local_store)
       /\ \A i \in DOMAIN r.output_directories :
            LET dir == r.output_directories[i] IN
            \A k \in 1..Len(Components(dir.path)) :
              DirectoryBytes(Wrapper(Components(dir.path), k,
                                     Digest(dir.tree_digest.hash,
                                            dir.tree_digest.size_bytes)))
                \in local_store'
       /\ (r.output_files = <<>> /\ Len(r.output_directories) = 1
             /\ r.output_directories[1].path = <<>>) =>
            tree = Digest(r.output_directories[1].tree_digest.hash,
                          r.output_directories[1].tree_digest.size_bytes)]_vars

\* run returned Ok for a response that reports pets/cats, pets/dogs and the
\* file treats: the output tree has pets/cats/roland, pets/dogs/robin and
\* treats.
C25_Witness ==
  /\ pc = "Returned"
  /\ result.tag = "Ok"
  /\ operation.tag = "Operation"
  /\ Len(operation.operation.response.result.output_directories) = 2
  /\ operation.operation.response.result.output_directories[2].path = PetsDogs
  /\ Len(operation.operation.response.result.output_files) = 1
  /\ FilesUnder(local_store, result.value.output_directory) =
       {<< <<"pets", "cats", "roland">>, Digest("f1", 3), FALSE >>,
        << <<"pets", "dogs", "robin">>, Digest("f2", 3), FALSE >>,
        << <<"treats">>, Digest("f2", 3), FALSE >>}

(***************************************************************************)
(* Properties of the delivery paths.                                       *)
(***************************************************************************)
\* A done Operation that carries an error.
HasError(oos) == oos.tag = "Operation" /\ oos.operation.done /\ oos.operation.has_error
\* The same status as oos holds for the final match, delivered the other way:
\* in the response of a done Operation if oos is a Status, as a Status if not.
OtherPath(oos) ==
  IF oos.tag = "Status"
    THEN OperationOrStatus_Operation(DeliveredInResponse(OperationNames[1], oos.status))
    ELSE OperationOrStatus_Status(oos.operation.response.status)

\* C31 as stated: a failure status is classified as the final match classifies
\* it on each of the three paths, the error of a done Operation among them, and
\* a FAILED_PRECONDITION status that names missing blobs is classified
\* MissingDigests on each.
C31_ThreePathsAgree ==
  [][(ClassifyStep /\ (HasError(operation) \/ IsSome(MatchedStatus(operation))))
     => LET status == IF HasError(operation) THEN operation.operation.error
                      ELSE Unwrap(MatchedStatus(operation))
        IN /\ classified' = ClassifyStatus(status)
           /\ (status.code = "FAILED_PRECONDITION" /\ NamesMissingBlobs(status))
              => classified'.kind = "MissingDigests"]_vars
\* C31, amended: a failure status is classified the same way on the two paths
\* that reach the final match, the status of the ExecuteResponse in a done
\* Operation without an error and the status proto of a failed Execute RPC: the
\* classification made on one path is the one the other path gives for the
\* same status, and a FAILED_PRECONDITION status that names missing blobs is
\* classified MissingDigests with the same digests on both.  A status that is
\* the error of a done Operation is classified Fatal with the formatted error,
\* whatever it lists.
C31_TwoPathsAgree ==
  [][/\ (ClassifyStep /\ IsSome(MatchedStatus(operation)))
        => LET status == Unwrap(MatchedStatus(operation)) IN
           /\ classified' = extract_execute_response(OtherPath(operation), history,
                                                     Store(local_store, TRUE))
           /\ (status.code = "FAILED_PRECONDITION" /\ NamesMissingBlobs(status))
              => /\ classified'.kind = "MissingDigests"
                 /\ missing' = classified'.missing_digests
                 /\ pc' = "Uploading"
     /\ (ClassifyStep /\ HasError(operation))
        => /\ classified' = Fatal(format_error(operation.operation.error))
           /\ pc' = "Returned"
           /\ result' = Err(format_error(operation.operation.error))]_vars
\* The Execute RPC failed with a FAILED_PRECONDITION status proto that names
\* two missing blobs, and the loop went on to upload them.
C31_Witness ==
  /\ pc = "Uploading"
  /\ operation.tag = "Status"
  /\ operation.status.code = "FAILED_PRECONDITION"
  /\ Len(operation.status.details[1].violations) = 2
  /\ classified.kind = "MissingDigests"
  /\ missing = classified.missing_digests

(***************************************************************************)
(* Properties of the execution metadata.                                   *)
(***************************************************************************)
\* The duration a pair of timestamps gives when it is in order: Option.
DurationOf(span) == IF SpanOk(span) THEN Some(span.end - span.start) ELSE None
\* The attempt a classification leaves behind: the last of the result's
\* attempts for Done, the attempt pushed to the history for MissingDigests,
\* the current attempt of the history for Fatal.
AttemptOf(outcome, res, hist) ==
  CASE outcome.kind = "Done" -> res.value.execution_attempts[Len(res.value.execution_attempts)]
    [] outcome.kind = "MissingDigests" -> hist.attempts[Len(hist.attempts)]
    [] OTHER -> hist.current_attempt
\* The operation with every timestamp pair of its metadata in order.
WithSpansInOrder(oos) ==
  [oos EXCEPT !.operation.response.result.metadata =
     ExecutedActionMetadata(Span(0, 100), Span(0, 100), Span(0, 100), Span(0, 100))]
\* A classification without the attempts it carries.
WithoutAttempts(outcome) == [outcome EXCEPT !.result.execution_attempts = <<>>]

\* C32: for a done operation whose response carries execution metadata, a
\* timestamp pair that is ill-formed or ends before it starts leaves its
\* duration of the current attempt unset and adds no workunit; every pair that
\* is in order has its duration recorded, the cache-hit flag is recorded, and
\* the classification is the one the same operation gets with every pair in
\* order, for the same outcome of the store: Done, MissingDigests or Fatal,
\* with the same result, digests or message.
C32_IllFormedSpanSkipped ==
  [][(ClassifyStep /\ ReachesResponse(operation)
                   /\ operation.operation.response.result.has_execution_metadata)
     => LET response == operation.operation.response
            m == response.result.metadata
            attempt == AttemptOf(classified', result', history')
        IN /\ attempt.remote_queue = DurationOf(m.queue)
           /\ attempt.remote_input_fetch = DurationOf(m.input_fetch)
           /\ attempt.remote_execution = DurationOf(m.execution)
           /\ attempt.remote_output_store = DurationOf(m.output_upload)
           /\ attempt.was_cache_hit = response.cached_result
           /\ workunits' = workunits \o (IF response.cached_result THEN <<>>
                                         ELSE NamesOfSpansInOrder(m))
           /\ classified'.kind \in {"Done", "MissingDigests", "Fatal"}
           /\ \E ok \in BOOLEAN :
                WithoutAttempts(classified')
                  = WithoutAttempts(extract_execute_response(WithSpansInOrder(operation),
                                      history, Store(local_store, ok)))]_vars
\* A response that reports a missing blob, with an ill-formed queue pair and an
\* execution that ends before it starts, was classified: the attempt pushed to
\* the history has the two other durations and the cache-hit flag.
C32_Witness ==
  /\ pc = "Uploading"
  /\ classified.kind = "MissingDigests"
  /\ ReachesResponse(operation)
  /\ operation.operation.response.cached_result
  /\ operation.operation.response.result.metadata =
       ExecutedActionMetadata(IllFormedSpan, Span(0, 100), Span(100, 0), Span(0, 100))
  /\ history.attempts =
       <<[ExecutionStats_default EXCEPT !.uploaded = history.attempts[1].uploaded,
                                        !.remote_input_fetch = Some(100),
                                        !.remote_output_store = Some(100),
                                        !.was_cache_hit = TRUE]>>

(***************************************************************************)
(* Properties of the cancel token in the loop state.                       *)
(***************************************************************************)
\* The loop holds its state: an operation to classify or to poll for.
InLoop == pc \in {"Extracting", "Sleeping", "GetOperation"}
\* The step in which an Execute resolves and the loop state is built of it.
ExecuteResolves == pc = "Executing" /\ pc' = "Extracting"

\* C33: the loop state built of an Execute reply holds a token exactly when the
\* reply is an Operation, armed and with the name of that Operation; the state
\* holds that token unchanged through every NotFinished iteration, so that a
\* poll is only made with the token of the most recent Execute in hand; and no
\* token is held while a later Execute is prepared or awaited, so that there
\* is at most one at a time.
C33_TokenIffOperation ==
  [][/\ ExecuteResolves
        => /\ IsSome(maybe_cancel_remote_exec_token') <=> operation'.tag = "Operation"
           /\ IsSome(maybe_cancel_remote_exec_token')
              => /\ Unwrap(maybe_cancel_remote_exec_token').operation_name
                      = operation'.operation.name
                 /\ Unwrap(maybe_cancel_remote_exec_token').execute = Len(executes)
                 /\ Unwrap(maybe_cancel_remote_exec_token').send_cancellation_on_drop
     /\ (InLoop /\ InLoop')
        => maybe_cancel_remote_exec_token' = maybe_cancel_remote_exec_token
     /\ pc' \in {"Sleeping", "GetOperation"}
        => /\ IsSome(maybe_cancel_remote_exec_token')
           /\ Unwrap(maybe_cancel_remote_exec_token').execute = Len(executes')
           /\ IsSome(last_operation')
           /\ Unwrap(last_operation').execute = Len(executes')
     /\ (pc' = "Extracting" /\ ~IsSome(maybe_cancel_remote_exec_token'))
        => operation'.tag = "Status" /\ iter_num' = 0
     /\ pc' \in {"Start", "StoringLocally", "SyncingRemote", "Uploading", "Executing"}
        => maybe_cancel_remote_exec_token' = None]_vars
\* The token of the second Execute, made after a recovery, is in the loop state
\* after two polls of its operation.
C33_Witness ==
  /\ pc = "Extracting"
  /\ Len(executes) = 2
  /\ iter_num = 2
  /\ maybe_cancel_remote_exec_token
       = Some(CancelRemoteExecutionToken_new(OperationNames[2], 2))


(* Properties of one Execute call. *)

\* The errors of RpcErrors that carry status_proto_bytes, and the others.
WithStatusProto == {e \in RpcErrors : e.kind = "RpcFailure" /\ e.has_status_proto}
WithoutStatusProto == RpcErrors \ WithStatusProto
NoStreamResponse ==
  Err(<<"Didn't get proper stream response from server during remote execution">>)

C34_WitnessNoProto ==
  /\ pc = "Returned"
  /\ Len(executes) = 1
  /\ result = Err(rpcerror_to_string(RpcFailure("UNAVAILABLE", FALSE, DefaultStatus)))
\* An RPC failure with a status proto is being classified as a Status.
C34_WitnessProto ==
  /\ pc = "Extracting"
  /\ iter_num = 0
  /\ operation = OperationOrStatus_Status(InternalError)


(* Properties of the place of the timeout check. *)

\* The budget of the request is spent at the current instant.
BudgetSpent == now - start_time > req.timeout
\* The result run makes up when it gives up on an operation.
IsTimeoutResult(res) == res.tag = "Ok" /\ res.value.exit_code = -SIGTERM

C35_WitnessFullSleep ==
  /\ pc = "GetOperation"
  /\ BudgetSpent
  /\ now - backoff - start_time <= req.timeout
  /\ req.timeout - (now - backoff - start_time) < backoff
\* Missing digests reported with the budget spent are being uploaded.
C35_WitnessMissingLate ==
  /\ pc = "Uploading"
  /\ BudgetSpent
  /\ classified.kind = "MissingDigests"


(***************************************************************************)
(* The recovery loop without end.  Every RPC, store call and upload        *)
(* completes and every recovery upload takes time; the Execute stream      *)
(* yields no Operation: it ends, or fails with or without a status proto,  *)
(* the status proto FAILED_PRECONDITION/MISSING among them.  The logs of   *)
(* the run (the Execute requests and the uploads the server has seen, the  *)
(* attempts of the history) are kept as a window of their last MaxExecutes *)
(* entries and the clock is kept at one tick past the budget once the      *)
(* budget is spent, which run cannot tell from any later instant: it only  *)
(* compares the elapsed time with the timeout.                             *)
(***************************************************************************)
InitRecovery ==
  /\ Init
  /\ multi_request[<<"None", "None">>].timeout # LongTimeout
  /\ make_execute_request(multi_request[<<"None", "None">>], metadata).ok

ExecuteYieldsNoOperation ==
  ExecuteReturnsOf({r \in ExecuteReplies(Len(executes)) : r.kind # "Message"})

\* The recovery upload, which takes time.
UploadMissingLasting == UploadMissingOf({TRUE}, Latencies \ {0})

\* The window of the logs moves on by one entry.
ForgetOldest ==
  /\ pc = "Uploading"
  /\ Len(executes) = MaxExecutes
  /\ executes' = Tail(executes)
  /\ uploads' = Tail(uploads)
  /\ history' = [history EXCEPT !.attempts = IF @ = <<>> THEN @ ELSE Tail(@)]
  /\ now' = IF now - start_time > req.timeout THEN start_time + req.timeout + 1 ELSE now
  /\ UNCHANGED <<pc, tasks_vars, start_vars, req, execute_request, start_time, operation,
                 maybe_cancel_remote_exec_token, iter_num, backoff, operation_request,
                 missing, result, cancel_requests, get_operations, getops_in_attempt,
                 last_getop_at, getop_reply, last_operation, classified, workunits,
                 local_store, in_flight>>

NextRecovery ==
  \/ RunStart
  \/ StoreSucceeds
  \/ SyncSucceeds
  \/ ExecuteYieldsNoOperation
  \/ Classify
  \/ UploadMissingLasting
  \/ ForgetOldest

SpecRecovery == InitRecovery /\ [][NextRecovery]_vars /\ WF_vars(NextRecovery)

(* Properties of the end of run. *)

\* run is over: it has returned or panicked, or its future was dropped.
Finished == pc \in {"Returned", "Panicked", "Dropped"}

\* C36: when every RPC, store call and timer completes and time advances, run
\* eventually returns a result or an error.
C36_RunReturns == <>Finished
\* What a recovery arm that looked at the budget would keep: no Execute is
\* re-issued once the budget of the request is spent.
C36_NoExecuteOnSpentBudget ==
  [][(pc = "Uploading" /\ pc' = "Executing") => ~(now' - start_time > req.timeout)]_vars


(* Properties of what the digests do not depend on. *)

\* Requests that differ from r in nothing but the timeout, the description
\* and the path that jdk_home holds, if it holds one.
OtherJdkHomes == {"/tmp", "/usr/lib/jvm", ""}
OtherDescriptions == {"echo-a-foo", "wrong command", ""}
SameButUnhashed(r) ==
  {[r EXCEPT !.timeout = t, !.description = d,
             !.jdk_home = IF IsSome(r.jdk_home) THEN Some(home) ELSE None] :
     t \in Timeouts, d \in OtherDescriptions, home \in OtherJdkHomes}

\* C37: a request that differs from the one that was built only in its
\* timeout, its description and the path in its jdk_home is built as well and
\* gives the same Command, the same Action and the same digests of both and of
\* the action in the ExecuteRequest, whatever the instance name; setting or
\* unsetting jdk_home does change the Command.
C37_DigestsIgnoreUnhashedFields ==
  Made =>
    LET made == execute_request_result IN
    /\ \A other_req \in SameButUnhashed(req) :
         LET other == make_execute_request(other_req, metadata) IN
         /\ other.ok
         /\ other.command = made.command
         /\ other.action = made.action
         /\ digest(other.command) = digest(made.command)
         /\ digest(other.action) = digest(made.action)
         /\ other.execute_request.action_digest = made.execute_request.action_digest
    /\ \A home \in {None, Some("/tmp")} :
         home # req.jdk_home =>
           digest(make_execute_request([req EXCEPT !.jdk_home = home], metadata).command)
             # digest(made.command)
\* A request with jdk_home /tmp was built, and the request with another JDK
\* path, the long timeout and another description is a different request with
\* the same action digest.
C37_Witness ==
  /\ Made
  /\ req.jdk_home = Some("/tmp")
  /\ req.timeout = 1500
  /\ LET other_req == [req EXCEPT !.timeout = LongTimeout, !.description = "wrong command",
                                  !.jdk_home = Some("/usr/lib/jvm")]
     IN /\ other_req \in SameButUnhashed(req)
        /\ other_req # req
        /\ make_execute_request(other_req, metadata).execute_request.action_digest
             = execute_request.action_digest


(* Properties of the number of CancelOperation requests. *)

\* The CancelOperation requests made for the operation of a given name.
CancelsNaming(name) == {i \in DOMAIN cancel_requests : cancel_requests[i].name = name}

\* C38: a token is made only of an Operation that an Execute returned; a step
\* dispatches at most one CancelOperation, and only by releasing the armed
\* token that is held, whose name the request carries and which is gone
\* afterwards; so no token dispatches twice, no operation of the run is named
\* by two requests, and there are never more requests than Execute RPCs that
\* have returned an Operation, which are at most the Execute RPCs issued.
C38_OneCancelPerToken ==
  [][/\ (/\ IsSome(maybe_cancel_remote_exec_token')
         /\ maybe_cancel_remote_exec_token' # maybe_cancel_remote_exec_token)
          => /\ pc = "Executing"
             /\ operation'.tag = "Operation"
             /\ Unwrap(maybe_cancel_remote_exec_token').execute = Len(executes)
             /\ CancelsOf(Len(executes)) = {}
     /\ cancel_requests' # cancel_requests
          => /\ IsSome(maybe_cancel_remote_exec_token)
             /\ Unwrap(maybe_cancel_remote_exec_token).send_cancellation_on_drop
             /\ maybe_cancel_remote_exec_token' = None
             /\ Len(cancel_requests') = Len(cancel_requests) + 1
             /\ SubSeq(cancel_requests', 1, Len(cancel_requests)) = cancel_requests
             /\ cancel_requests'[Len(cancel_requests')].name
                  = Unwrap(maybe_cancel_remote_exec_token).operation_name
             /\ cancel_requests'[Len(cancel_requests')].execute
                  = Unwrap(maybe_cancel_remote_exec_token).execute
     /\ \A n \in 1..(Len(executes) + 1) : Cardinality(CancelsOf(n)) <= 1
     /\ \A i \in DOMAIN cancel_requests :
          /\ cancel_requests[i].execute \in 1..Len(executes)
          /\ IsSome(last_operation)
          /\ cancel_requests[i].execute <= Unwrap(last_operation).execute
          /\ Cardinality(CancelsNaming(cancel_requests[i].name)) = 1
     /\ Len(cancel_requests) <= Len(executes)
     /\ IsSome(maybe_cancel_remote_exec_token)
          => CancelsOf(Unwrap(maybe_cancel_remote_exec_token).execute) = {}]_vars
\* Two tokens were made in the run and each has dispatched its one request.
C38_Witness ==
  /\ pc = "Returned"
  /\ Len(executes) = 3
  /\ Len(cancel_requests) = 2
  /\ Cardinality(CancelsOf(1)) = 1
  /\ Cardinality(CancelsOf(3)) = 1
  /\ CancelsOf(2) = {}


(***************************************************************************)
(* The Tasks object in use: one action per method called through the C     *)
(* API.  A call that panics ends the use of the object; the state then     *)
(* shows what the call left behind.                                        *)
(***************************************************************************)
\* The calls the object may accept.
MaxCalls == 5

\* Types: the TypeIds of the intrinsic products and inputs; a second Types
\* that names another type for the input files content.
StandardTypes ==
  [directory_digest |-> "Digest", input_files_content |-> "InputFilesContent",
   snapshot |-> "Snapshot", path_globs |-> "PathGlobs", url_to_fetch |-> "UrlToFetch",
   files_content |-> "FilesContent", directories_to_merge |-> "DirectoriesToMerge",
   directory_with_prefix_to_strip |-> "DirectoryWithPrefixToStrip",
   process_result |-> "FallibleExecuteProcessResult",
   multi_platform_process_request |-> "MultiPlatformExecuteProcessRequest"]
TypesGiven ==
  {StandardTypes, [StandardTypes EXCEPT !.input_files_content = "OtherInputFilesContent"]}
\* The arguments of task_begin (func, product, cacheable), add_select and add_get.
TaskBegins == {<<"f", "Snapshot", TRUE>>, <<"f", "Snapshot", FALSE>>, <<"g", "Address", TRUE>>}
SelectsGiven == {"Address", "PathGlobs"}
GetsGiven == {<<"Snapshot", "PathGlobs">>}

run_vars == <<pc, start_vars, req, execute_request, now, start_time, history, operation,
              maybe_cancel_remote_exec_token, iter_num, backoff, operation_request,
              missing, result, cancel_requests, executes, uploads, get_operations,
              getops_in_attempt, last_getop_at, getop_reply, last_operation,
              classified, workunits, local_store, in_flight>>

TasksState == [rules |-> rules, preparing |-> preparing]
\* The accepted calls of one method.
CallsOf(op) == {i \in DOMAIN tasks_calls : tasks_calls[i][1] = op}

\* The object after a call: what the call wrote, and the call in the list of
\* the accepted ones or as the one that panicked.
Called(outcome, call) ==
  /\ rules' = outcome.rules
  /\ preparing' = outcome.preparing
  /\ tasks_calls' = IF outcome.ok THEN Append(tasks_calls, call) ELSE tasks_calls
  /\ tasks_failed' = IF outcome.ok THEN None
                     ELSE Some([call |-> call, message |-> outcome.message])
  /\ UNCHANGED run_vars

TaskBegin ==
  /\ tasks_failed = None
  /\ \E b \in TaskBegins :
       /\ task_begin(TasksState, b[1], b[2], b[3]).ok
            => Len(tasks_calls) < MaxCalls
       /\ Called(task_begin(TasksState, b[1], b[2], b[3]), <<"task_begin", b[1], b[2], b[3]>>)

AddGet ==
  /\ tasks_failed = None
  /\ \E g \in GetsGiven :
       /\ add_get(TasksState, g[1], g[2]).ok
            => Len(tasks_calls) < MaxCalls
       /\ Called(add_get(TasksState, g[1], g[2]), <<"add_get", g[1], g[2]>>)

AddSelect ==
  /\ tasks_failed = None
  /\ \E s \in SelectsGiven :
       /\ add_select(TasksState, s).ok
            => Len(tasks_calls) < MaxCalls
       /\ Called(add_select(TasksState, s), <<"add_select", s>>)

TaskEnd ==
  /\ tasks_failed = None
  /\ task_end(TasksState).ok => Len(tasks_calls) < MaxCalls
  /\ Called(task_end(TasksState), <<"task_end">>)

IntrinsicsSet ==
  /\ tasks_failed = None
  /\ \E types \in TypesGiven :
       /\ intrinsics_set(TasksState, types).ok => Len(tasks_calls) < MaxCalls
       /\ Called(intrinsics_set(TasksState, types), <<"intrinsics_set", types>>)

InitTasks == InitClassify

NextTasks ==
  \/ TaskBegin
  \/ AddGet
  \/ AddSelect
  \/ TaskEnd
  \/ IntrinsicsSet

SpecTasks == InitTasks /\ [][NextTasks]_vars


(* Properties of the registration lifecycle. *)

\* The position of the last accepted task_begin, 0 when there is none.
LastBegin(calls) ==
  IF \E i \in DOMAIN calls : calls[i][1] = "task_begin"
    THEN CHOOSE i \in DOMAIN calls :
           /\ calls[i][1] = "task_begin"
           /\ \A j \in DOMAIN calls : j > i => calls[j][1] # "task_begin"
    ELSE 0
\* The last accepted task_begin has not been followed by an accepted task_end.
OpenTask(calls) ==
  /\ LastBegin(calls) > 0
  /\ \A j \in DOMAIN calls : j > LastBegin(calls) => calls[j][1] # "task_end"
\* The accepted calls after the last task_begin.
SinceBegin(calls) == SubSeq(calls, LastBegin(calls) + 1, Len(calls))
IsAddSelect(call) == call[1] = "add_select"
IsAddGet(call) == call[1] = "add_get"
\* The selects and the gets added since the last task_begin, in their order.
SelectsAdded(calls) ==
  [i \in DOMAIN SelectSeq(SinceBegin(calls), IsAddSelect) |->
     Select_new(SelectSeq(SinceBegin(calls), IsAddSelect)[i][2])]
GetsAdded(calls) ==
  [i \in DOMAIN SelectSeq(SinceBegin(calls), IsAddGet) |->
     Get(SelectSeq(SinceBegin(calls), IsAddGet)[i][2], SelectSeq(SinceBegin(calls), IsAddGet)[i][3])]
\* The task that the calls since the last task_begin define.
TaskDefined(calls) ==
  Task(calls[LastBegin(calls)][3], SelectsAdded(calls), GetsAdded(calls),
       calls[LastBegin(calls)][2], calls[LastBegin(calls)][4])
\* The list registered for a product, empty when the product has no entry.
RulesFor(map, product) == IF product \in DOMAIN map THEN map[product] ELSE <<>>
\* The step is an accepted call of the method, or a call of it that panicked.
Accepted(op) ==
  Len(tasks_calls') = Len(tasks_calls) + 1 /\ tasks_calls'[Len(tasks_calls')][1] = op
Panicked(op) ==
  tasks_failed = None /\ IsSome(tasks_failed') /\ Unwrap(tasks_failed').call[1] = op

\* C39: task_begin is accepted only when no task is being prepared and panics
\* otherwise; add_get, add_select and task_end are accepted only when one is
\* and panic otherwise, task_end also when the task is registered already;
\* while no call has panicked, a task is being prepared exactly when the last
\* accepted task_begin has not been followed by an accepted task_end, and it
\* is the task of that task_begin with the selects and the gets added since,
\* each in the order of the calls; an accepted task_end appends exactly that
\* task to the list of its product and leaves no task being prepared.
C39_Lifecycle ==
  [][/\ tasks_failed' = None =>
          /\ IsSome(preparing') <=> OpenTask(tasks_calls')
          /\ IsSome(preparing') => Unwrap(preparing') = TaskDefined(tasks_calls')
     /\ Accepted("task_begin") => ~IsSome(preparing)
     /\ Panicked("task_begin") => IsSome(preparing) /\ preparing' = preparing /\ rules' = rules
     /\ (Accepted("add_get") \/ Accepted("add_select") \/ Accepted("task_end"))
          => IsSome(preparing)
     /\ (Panicked("add_get") \/ Panicked("add_select"))
          => ~IsSome(preparing) /\ preparing' = preparing /\ rules' = rules
     /\ Panicked("task_end")
          => \/ ~IsSome(preparing) /\ preparing' = preparing /\ rules' = rules
             \/ /\ IsSome(preparing)
                /\ Vec_contains(RulesFor(rules, Unwrap(preparing).product),
                                Rule_Task(Unwrap(preparing)))
     /\ Accepted("task_end")
          => /\ preparing' = None
             /\ DOMAIN rules' = DOMAIN rules \cup {TaskDefined(tasks_calls).product}
             /\ rules'[TaskDefined(tasks_calls).product]
                  = Append(RulesFor(rules, TaskDefined(tasks_calls).product),
                           Rule_Task(TaskDefined(tasks_calls)))
             /\ \A p \in DOMAIN rules : p # TaskDefined(tasks_calls).product
                                          => rules'[p] = rules[p]
     /\ (tasks_failed = None /\ ~IsSome(preparing))
          => ~(Accepted("add_get") \/ Accepted("add_select") \/ Accepted("task_end"))
     /\ (tasks_failed = None /\ IsSome(preparing)) => ~Accepted("task_begin")]_vars
\* A task with two selects and a get between them was registered: its clause
\* has the selects in the order of the calls.
C39_Witness ==
  /\ tasks_failed = None
  /\ preparing = None
  /\ tasks_calls = << <<"task_begin", "f", "Snapshot", TRUE>>, <<"add_select", "PathGlobs">>,
                      <<"add_get", "Snapshot", "PathGlobs">>, <<"add_select", "Address">>,
                      <<"task_end">> >>
  /\ rules["Snapshot"]
       = << Rule_Task(Task("Snapshot", <<Select_new("PathGlobs"), Select_new("Address")>>,
                           <<Get("Snapshot", "PathGlobs")>>, "f", TRUE)) >>
\* task_begin panicked while a task was being prepared.
C39_WitnessBeginTwice ==
  /\ IsSome(tasks_failed)
  /\ Unwrap(tasks_failed).call[1] = "task_begin"
  /\ IsSome(preparing)
\* task_end panicked with no task being prepared.
C39_WitnessEndAlone ==
  /\ IsSome(tasks_failed)
  /\ Unwrap(tasks_failed).call[1] = "task_end"
  /\ Unwrap(tasks_failed).message = "Must begin() a task creation before ending it!"


(* Properties of the rule map. *)

\* No list of the map holds two equal rules.
NoDuplicates(map) ==
  \A p \in DOMAIN map : \A i, j \in DOMAIN map[p] : i # j => map[p][i] # map[p][j]
\* The places of the map, and how many of them hold a rule of a variant.
Places(map) == UNION {{<<p, i>> : i \in DOMAIN map[p]} : p \in DOMAIN map}
NumRules(map, tag) == Cardinality({pl \in Places(map) : map[pl[1]][pl[2]].tag = tag})
\* Every list of the first map begins the list of the same product in the second.
Extends(longer, map) ==
  /\ DOMAIN map \subseteq DOMAIN longer
  /\ \A p \in DOMAIN map :
       Len(map[p]) <= Len(longer[p]) /\ SubSeq(longer[p], 1, Len(map[p])) = map[p]
\* The call that panicked did so in the assertion of insert_rule.
DoubleRegistered(op) ==
  Panicked(op) /\ Unwrap(tasks_failed').message = "was double-registered"
\* The types of the intrinsics_set call that panicked in the step.
TypesRejected == Unwrap(tasks_failed').call[2]

\* C40: no list of the rule map ever holds a rule twice and every rule is
\* listed under its own product; a task_end whose task is already registered
\* under its product panics and leaves the map as it was, and so does an
\* intrinsics_set with types that were set before; an intrinsics_set that
\* panics has only appended intrinsics that were not registered, up to the
\* first that was; task_begin, add_get and add_select, accepted or not, leave
\* the map as it was, and what as_map shows holds one Task rule for every
\* accepted task_end, so none for a task in preparation, and the eight
\* intrinsics of every accepted intrinsics_set.
C40_NoDoubleRegistration ==
  [][/\ NoDuplicates(rules) /\ NoDuplicates(rules')
     /\ \A pl \in Places(rules') : rules'[pl[1]][pl[2]].rule.product = pl[1]
     /\ DoubleRegistered("task_end")
          => /\ rules' = rules
             /\ Vec_contains(RulesFor(rules, TaskDefined(tasks_calls).product),
                             Rule_Task(TaskDefined(tasks_calls)))
     /\ Panicked("intrinsics_set")
          => /\ DoubleRegistered("intrinsics_set")
             /\ Extends(rules', rules)
             /\ \E k \in 0..(Len(IntrinsicsOf(TypesRejected)) - 1) :
                  /\ NumRules(rules', "Intrinsic") = NumRules(rules, "Intrinsic") + k
                  /\ NumRules(rules', "Task") = NumRules(rules, "Task")
                  /\ \A i \in 1..k :
                       LET added == IntrinsicsOf(TypesRejected)[i] IN
                       /\ ~Vec_contains(RulesFor(rules, added.product), Rule_Intrinsic(added))
                       /\ Vec_contains(RulesFor(rules', added.product), Rule_Intrinsic(added))
                  /\ LET found == IntrinsicsOf(TypesRejected)[k + 1] IN
                     Vec_contains(RulesFor(rules', found.product), Rule_Intrinsic(found))
             /\ (\E i \in CallsOf("intrinsics_set") : tasks_calls[i][2] = TypesRejected)
                  => rules' = rules
     /\ \A op \in {"task_begin", "add_get", "add_select"} :
          (Accepted(op) \/ Panicked(op)) => as_map(TasksState)' = as_map(TasksState)
     /\ tasks_failed' = None =>
          /\ NumRules(as_map(TasksState)', "Task") = Cardinality(CallsOf("task_end")')
          /\ NumRules(as_map(TasksState)', "Intrinsic")
               = Len(IntrinsicsOf(StandardTypes)) * Cardinality(CallsOf("intrinsics_set")')]_vars
\* The same task was begun and ended twice: the second task_end panicked in
\* insert_rule and the list of the product holds the task once.
C40_Witness ==
  /\ IsSome(tasks_failed)
  /\ Unwrap(tasks_failed).call[1] = "task_end"
  /\ Unwrap(tasks_failed).message = "was double-registered"
  /\ tasks_calls = << <<"task_begin", "f", "Snapshot", TRUE>>, <<"task_end">>,
                      <<"task_begin", "f", "Snapshot", TRUE>> >>
  /\ rules["Snapshot"] = << Rule_Task(Task("Snapshot", <<>>, <<>>, "f", TRUE)) >>
\* intrinsics_set was called twice with the same types: the second call
\* panicked and the map holds the eight intrinsics once.
C40_WitnessIntrinsicsTwice ==
  /\ IsSome(tasks_failed)
  /\ Unwrap(tasks_failed).call = <<"intrinsics_set", StandardTypes>>
  /\ tasks_calls = << <<"intrinsics_set", StandardTypes>> >>
  /\ NumRules(rules, "Intrinsic") = Len(IntrinsicsOf(StandardTypes))
\* A task that differs from a registered one in cacheable alone was
\* registered beside it, after the intrinsics of its product.
C40_WitnessNotEqual ==
  /\ tasks_failed = None
  /\ Len(RulesFor(rules, "Snapshot")) = 5
  /\ rules["Snapshot"][4] = Rule_Task(Task("Snapshot", <<>>, <<>>, "f", TRUE))
  /\ rules["Snapshot"][5] = Rule_Task(Task("Snapshot", <<>>, <<>>, "f", FALSE))
\* intrinsics_set with other types panicked at its second intrinsic, after it
\* had registered the first.
C40_WitnessPartial ==
  /\ IsSome(tasks_failed)
  /\ Unwrap(tasks_failed).call[1] = "intrinsics_set"
  /\ NumRules(rules, "Intrinsic") = Len(IntrinsicsOf(StandardTypes)) + 1

====
